---- MODULE Spec2Model ----
(***************************************************************************)
(* A model of the report-generation pipeline of src/src/backend.py and of  *)
(* its inbound boundary src/src/api.py.                                    *)
(*                                                                         *)
(* Python values are tagged records, so that None, NaN, numbers and        *)
(* strings can live in one dictionary.  Python dictionaries are functions  *)
(* whose DOMAIN is the set of keys present; lists are sequences.           *)
(* Floating-point numbers are modelled by exact rationals n/d (lowest      *)
(* terms, d > 0) plus the NaN marker.                                      *)
(***************************************************************************)
EXTENDS Integers, Sequences, FiniteSets, TLC

VARIABLES
    m_yahoo,      \* compute_company_metrics: the argument `yahoo`
    m_pc,         \* compute_company_metrics: "idle" | "call" | "returned" | "raised"
    m_metrics,    \* compute_company_metrics: the returned dict
    f_comments,   \* filter_financial_comments: the argument `comments`
    f_pc,         \* filter_financial_comments: "idle" | "call" | "returned" | "raised"
    f_result,     \* filter_financial_comments: the returned list
    a_comments,   \* analyze_comments_with_anthropic: the argument `comments`
    a_key,        \* config.ANTHROPIC_API_KEY is set
    a_pc,         \* analyze_comments_with_anthropic: "idle" | "call" | "returned"
    a_outcome,    \* what the last anthropic_complete call did (raise or text)
    a_calls,      \* the number of anthropic_complete invocations
    a_prompt,     \* the sample texts embedded in the prompt
    a_result,     \* analyze_comments_with_anthropic: the returned dict
    g_pc,           \* the request's position in post_report / generate_company_report
    g_ticker,       \* payload.get("ticker")
    g_key,          \* config.ANTHROPIC_API_KEY is set
    g_ytkey,        \* config.YOUTUBE_API_KEY is set
    g_valid,        \* `ok` of validate_ticker
    g_meta,         \* `meta` of validate_ticker
    g_company_name,
    g_yahoo,
    g_web,
    g_yt_data,
    g_yt_analysis,
    g_metrics,
    g_metrics_text,
    g_comparator_result,
    g_fusion,       \* what the fusion pass's anthropic_complete call did
    g_report,       \* the dict generate_company_report returned
    g_raised,       \* an exception left generate_company_report
    g_calls,        \* the functions generate_company_report has called, in order
    g_llm_calls,    \* the number of anthropic_complete invocations
    g_status,       \* the HTTP status answered, 0 before the answer
    g_body,         \* the HTTP body answered
    p_key,          \* fetch_comments_for_video: config.YOUTUBE_API_KEY is set
    p_thread,       \* fetch_comments_for_video: the pages the provider serves
    p_max_comments, \* fetch_comments_for_video: the argument `max_comments`
    p_pc,           \* fetch_comments_for_video: "idle" | "call" | "loop" | "returned"
    p_page,         \* the index of the page the next request fetches
    p_comments,     \* the local list `comments`
    p_requests,     \* the number of requests.get calls made
    p_result,       \* fetch_comments_for_video: the returned list
    y_key,          \* fetch_youtube_comments_for_query: config.YOUTUBE_API_KEY is set
    y_search,       \* the provider's answer to the video search
    y_max_videos,   \* the argument `max_videos`
    y_pc,           \* fetch_youtube_comments_for_query: "idle" | "call" | "returned"
    y_result        \* what fetch_youtube_comments_for_query returned and requested

m_vars == <<m_yahoo, m_pc, m_metrics>>

f_vars == <<f_comments, f_pc, f_result>>

a_vars == <<a_comments, a_key, a_pc, a_outcome, a_calls, a_prompt, a_result>>

o_vars ==
    <<g_pc, g_ticker, g_key, g_ytkey, g_valid, g_meta, g_company_name, g_yahoo, g_web, g_yt_data, g_yt_analysis,
      g_metrics, g_metrics_text, g_comparator_result, g_fusion, g_report, g_raised, g_calls, g_llm_calls,
      g_status, g_body>>

p_vars ==
    <<p_key, p_thread, p_max_comments, p_pc, p_page, p_comments, p_requests, p_result>>

y_vars == <<y_key, y_search, y_max_videos, y_pc, y_result>>

vars == <<m_vars, f_vars, a_vars, o_vars, p_vars, y_vars>>

----------------------------------------------------------------------------
(* Python values *)

None == [t |-> "None"]

NaN == [t |-> "nan"]

Str(s) == [t |-> "str", s |-> s]

\* a list value; its items are the sequence v
List(items) == [t |-> "list", v |-> items]

Abs(n) == IF n < 0 THEN -n ELSE n

RECURSIVE GCD(_, _)
GCD(a, b) == IF b = 0 THEN a ELSE GCD(b, a % b)

\* the rational n/d, d # 0, in lowest terms with a positive denominator
Rat(n, d) ==
    LET g == GCD(Abs(n), Abs(d))
        s == IF d < 0 THEN -1 ELSE 1
    IN  [t |-> "num", n |-> (s * n) \div g, d |-> (s * d) \div g]

Num(n) == [t |-> "num", n |-> n, d |-> 1]

IsNum(v) == v.t = "num"

\* bool(v): None, 0, 0.0 and "" are falsy; NaN is truthy
Truthy(v) ==
    CASE v.t = "None" -> FALSE
      [] v.t = "nan"  -> TRUE
      [] v.t = "num"  -> v.n # 0
      [] v.t = "str"  -> v.s # ""
      [] v.t = "list" -> v.v # <<>>
      [] v.t = "text" -> v.c # <<>>
      [] OTHER        -> TRUE

\* the expression `a or b`
Or(a, b) == IF Truthy(a) THEN a ELSE b

\* dict.get(k): None when the key is missing
Get(d, k) == IF k \in DOMAIN d THEN d[k] ELSE None

EmptyDict == [k \in {} |-> None]

Min(a, b) == IF a < b THEN a ELSE b

\* the slice s[:n]
FirstN(s, n) == SubSeq(s, 1, Min(n, Len(s)))

----------------------------------------------------------------------------
(* filter_financial_comments *)

\* A comment text is a sequence of characters (one-character strings), so that
\* lower(), split(), strip() and the substring test `kw in text` are computed.
Text(chars) == [t |-> "text", c |-> chars]

Comment(author, text) == [author |-> Str(author), text |-> text]

UpperCase ==
    << "A", "B", "C", "D", "E", "F", "G", "H", "I", "J", "K", "L", "M",
       "N", "O", "P", "Q", "R", "S", "T", "U", "V", "W", "X", "Y", "Z" >>

LowerCase ==
    << "a", "b", "c", "d", "e", "f", "g", "h", "i", "j", "k", "l", "m",
       "n", "o", "p", "q", "r", "s", "t", "u", "v", "w", "x", "y", "z" >>

LowerChar(ch) ==
    IF \E i \in 1..Len(UpperCase) : UpperCase[i] = ch
    THEN LowerCase[CHOOSE i \in 1..Len(UpperCase) : UpperCase[i] = ch]
    ELSE ch

\* str.lower() over the ASCII alphabet (SubSeq makes the result an explicit tuple)
Lower(chars) == SubSeq([i \in 1..Len(chars) |-> LowerChar(chars[i])], 1, Len(chars))

IsSpace(ch) == ch \in {" ", "\t", "\n"}

\* len(text.split()): the number of maximal runs of non-whitespace characters
WordCount(chars) ==
    Cardinality({ i \in 1..Len(chars) :
                    ~IsSpace(chars[i]) /\ (i = 1 \/ IsSpace(chars[i - 1])) })

\* len(text.strip())
StripLen(chars) ==
    LET solid == { i \in 1..Len(chars) : ~IsSpace(chars[i]) }
    IN  IF solid = {} THEN 0
        ELSE (CHOOSE i \in solid : \A j \in solid : j <= i)
             - (CHOOSE i \in solid : \A j \in solid : i <= j) + 1

\* the substring test `kw in text`
Contains(chars, kw) ==
    \E i \in 1..(Len(chars) - Len(kw) + 1) :
        \A j \in 1..Len(kw) : chars[i + j - 1] = kw[j]

\* the keywords of high_value_keywords with their weights, in dict order
high_value_keywords ==
    << [kw |-> <<"b", "u", "y">>, weight |-> 3],
       [kw |-> <<"s", "e", "l", "l">>, weight |-> 3],
       [kw |-> <<"h", "o", "l", "d">>, weight |-> 2],
       [kw |-> <<"i", "n", "v", "e", "s", "t">>, weight |-> 2],
       [kw |-> <<"i", "n", "v", "e", "s", "t", "i", "n", "g">>, weight |-> 2],
       [kw |-> <<"p", "o", "r", "t", "f", "o", "l", "i", "o">>, weight |-> 2],
       [kw |-> <<"b", "u", "l", "l", "i", "s", "h">>, weight |-> 3],
       [kw |-> <<"b", "e", "a", "r", "i", "s", "h">>, weight |-> 3],
       [kw |-> <<"l", "o", "n", "g", " ", "t", "e", "r", "m">>, weight |-> 3],
       [kw |-> <<"s", "h", "o", "r", "t", " ", "t", "e", "r", "m">>, weight |-> 2],
       [kw |-> <<"o", "v", "e", "r", "v", "a", "l", "u", "e", "d">>, weight |-> 3],
       [kw |-> <<"u", "n", "d", "e", "r", "v", "a", "l", "u", "e", "d">>, weight |-> 3],
       [kw |-> <<"v", "a", "l", "u", "a", "t", "i", "o", "n">>, weight |-> 2],
       [kw |-> <<"t", "a", "r", "g", "e", "t", " ", "p", "r", "i", "c", "e">>, weight |-> 3],
       [kw |-> <<"f", "a", "i", "r", " ", "v", "a", "l", "u", "e">>, weight |-> 2],
       [kw |-> <<"i", "n", "t", "r", "i", "n", "s", "i", "c", " ", "v", "a", "l", "u", "e">>, weight |-> 3],
       [kw |-> <<"d", "i", "s", "c", "o", "u", "n", "t", "e", "d">>, weight |-> 2],
       [kw |-> <<"p", "e", " ", "r", "a", "t", "i", "o">>, weight |-> 2],
       [kw |-> <<"p", "/", "e">>, weight |-> 2],
       [kw |-> <<"e", "p", "s">>, weight |-> 2],
       [kw |-> <<"r", "e", "v", "e", "n", "u", "e">>, weight |-> 2],
       [kw |-> <<"e", "a", "r", "n", "i", "n", "g", "s">>, weight |-> 2],
       [kw |-> <<"p", "r", "o", "f", "i", "t">>, weight |-> 2],
       [kw |-> <<"d", "i", "v", "i", "d", "e", "n", "d">>, weight |-> 2],
       [kw |-> <<"y", "i", "e", "l", "d">>, weight |-> 2],
       [kw |-> <<"c", "a", "s", "h", " ", "f", "l", "o", "w">>, weight |-> 2],
       [kw |-> <<"d", "e", "b", "t">>, weight |-> 2],
       [kw |-> <<"m", "a", "r", "g", "i", "n">>, weight |-> 2],
       [kw |-> <<"f", "u", "n", "d", "a", "m", "e", "n", "t", "a", "l", "s">>, weight |-> 2],
       [kw |-> <<"a", "n", "a", "l", "y", "s", "i", "s">>, weight |-> 1],
       [kw |-> <<"f", "o", "r", "e", "c", "a", "s", "t">>, weight |-> 2],
       [kw |-> <<"p", "r", "e", "d", "i", "c", "t", "i", "o", "n">>, weight |-> 2],
       [kw |-> <<"o", "u", "t", "l", "o", "o", "k">>, weight |-> 2],
       [kw |-> <<"d", "u", "e", " ", "d", "i", "l", "i", "g", "e", "n", "c", "e">>, weight |-> 3],
       [kw |-> <<"d", "c", "f">>, weight |-> 2],
       [kw |-> <<"b", "a", "l", "a", "n", "c", "e", " ", "s", "h", "e", "e", "t">>, weight |-> 2],
       [kw |-> <<"i", "n", "c", "o", "m", "e", " ", "s", "t", "a", "t", "e", "m", "e", "n", "t">>, weight |-> 2],
       [kw |-> <<"r", "i", "s", "k">>, weight |-> 2],
       [kw |-> <<"r", "e", "w", "a", "r", "d">>, weight |-> 2],
       [kw |-> <<"o", "p", "p", "o", "r", "t", "u", "n", "i", "t", "y">>, weight |-> 2],
       [kw |-> <<"u", "p", "s", "i", "d", "e">>, weight |-> 2],
       [kw |-> <<"d", "o", "w", "n", "s", "i", "d", "e">>, weight |-> 2],
       [kw |-> <<"c", "o", "n", "v", "i", "c", "t", "i", "o", "n">>, weight |-> 2],
       [kw |-> <<"t", "h", "e", "s", "i", "s">>, weight |-> 2],
       [kw |-> <<"m", "o", "a", "t">>, weight |-> 3],
       [kw |-> <<"c", "o", "m", "p", "e", "t", "i", "t", "i", "v", "e", " ", "a", "d", "v", "a", "n", "t", "a", "g", "e">>, weight |-> 3] >>

medium_value_keywords ==
    << <<"s", "t", "o", "c", "k">>,
       <<"s", "h", "a", "r", "e">>,
       <<"p", "r", "i", "c", "e">>,
       <<"m", "a", "r", "k", "e", "t", " ", "c", "a", "p">>,
       <<"g", "r", "o", "w", "t", "h">>,
       <<"q", "u", "a", "r", "t", "e", "r">>,
       <<"q", "u", "a", "r", "t", "e", "r", "l", "y">>,
       <<"r", "e", "p", "o", "r", "t">>,
       <<"g", "u", "i", "d", "a", "n", "c", "e">>,
       <<"b", "e", "a", "t">>,
       <<"m", "i", "s", "s">>,
       <<"e", "s", "t", "i", "m", "a", "t", "e">>,
       <<"m", "a", "r", "k", "e", "t">>,
       <<"s", "e", "c", "t", "o", "r">>,
       <<"r", "e", "v", "e", "n", "u", "e">>,
       <<"s", "a", "l", "e", "s">>,
       <<"p", "r", "o", "f", "i", "t">>,
       <<"m", "a", "r", "g", "i", "n">>,
       <<"r", "o", "i">>,
       <<"r", "e", "t", "u", "r", "n">>,
       <<"p", "e", "r", "f", "o", "r", "m", "a", "n", "c", "e">>,
       <<"f", "i", "n", "a", "n", "c", "i", "a", "l">>,
       <<"i", "n", "v", "e", "s", "t", "o", "r">>,
       <<"s", "h", "a", "r", "e", "h", "o", "l", "d", "e", "r">>,
       <<"v", "a", "l", "u", "e">>,
       <<"w", "o", "r", "t", "h">>,
       <<"e", "v", "a", "l", "u", "a", "t", "i", "o", "n">>,
       <<"r", "e", "c", "o", "m", "m", "e", "n", "d", "a", "t", "i", "o", "n">>,
       <<"r", "a", "t", "i", "n", "g">>,
       <<"u", "p", "g", "r", "a", "d", "e">>,
       <<"d", "o", "w", "n", "g", "r", "a", "d", "e">>,
       <<"c", "a", "t", "a", "l", "y", "s", "t">>,
       <<"m", "o", "m", "e", "n", "t", "u", "m">> >>

spam_keywords ==
    << <<"s", "u", "b", "s", "c", "r", "i", "b", "e">>,
       <<"l", "i", "k", "e", " ", "a", "n", "d", " ", "s", "u", "b", "s", "c", "r", "i", "b", "e">>,
       <<"c", "h", "e", "c", "k", " ", "o", "u", "t", " ", "m", "y">>,
       <<"c", "l", "i", "c", "k", " ", "h", "e", "r", "e">>,
       <<"g", "i", "v", "e", "a", "w", "a", "y">>,
       <<"f", "r", "e", "e", " ", "m", "o", "n", "e", "y">>,
       <<"g", "e", "t", " ", "r", "i", "c", "h">>,
       <<"f", "i", "r", "s", "t", "!">>,
       <<"e", "a", "r", "l", "y", " ", "s", "q", "u", "a", "d">>,
       <<"n", "o", "t", "i", "f", "i", "c", "a", "t", "i", "o", "n", " ", "s", "q", "u", "a", "d">>,
       <<"w", "h", "o", " ", "e", "l", "s", "e">>,
       <<"a", "n", "y", "o", "n", "e", " ", "e", "l", "s", "e">>,
       <<"c", "a", "m", "e", " ", "h", "e", "r", "e", " ", "f", "r", "o", "m">>,
       <<"f", "u", "l", "l", " ", "v", "i", "d", "e", "o">>,
       <<"c", "h", "e", "c", "k", " ", "m", "y", " ", "c", "h", "a", "n", "n", "e", "l">>,
       <<"d", "m", " ", "m", "e">>,
       <<"c", "o", "n", "t", "a", "c", "t", " ", "m", "e">>,
       <<"c", "r", "y", "p", "t", "o">> >>
MinWords == 10

MinChars == 40

MinScore == 4

RECURSIVE HighValueScore(_, _)
HighValueScore(text, i) ==
    IF i > Len(high_value_keywords) THEN 0
    ELSE (IF Contains(text, high_value_keywords[i].kw)
          THEN high_value_keywords[i].weight ELSE 0) + HighValueScore(text, i + 1)

MediumValueScore(text) ==
    Cardinality({ i \in 1..Len(medium_value_keywords) :
                    Contains(text, medium_value_keywords[i]) })

\* the bonus for longer comments with only the highest tier applied
LengthBonus_highest_tier(word_count) ==
    IF word_count > 100 THEN 2 ELSE IF word_count > 50 THEN 2
    ELSE IF word_count > 30 THEN 1 ELSE 0

\* the bonus for longer comments: the three tests are independent and add up
LengthBonus(word_count) ==
    (IF word_count > 30 THEN 1 ELSE 0)
    + (IF word_count > 50 THEN 2 ELSE 0)
    + (IF word_count > 100 THEN 2 ELSE 0)

\* the relevance score of a lower-cased text
Score(text) ==
    HighValueScore(text, 1) + MediumValueScore(text) + LengthBonus(WordCount(text))

IsSpam(text) == \E i \in 1..Len(spam_keywords) : Contains(text, spam_keywords[i])

\* the loop body's decision for one comment whose text is a string
Keeps(comment) ==
    LET text == Lower(comment.text.c)
    IN  /\ WordCount(text) >= MinWords
        /\ StripLen(text) >= MinChars
        /\ ~IsSpam(text)
        /\ Score(text) >= MinScore

\* the entry appended to scored_comments
Scored(comment) ==
    LET text == Lower(comment.text.c)
    IN  [comment |-> comment, score |-> Score(text), word_count |-> WordCount(text)]

\* list.sort left out: the scored comments stay in input order
SortByScoreDesc_unsorted(items, i, placed) == items

\* a descending sort that puts an item before the placed items of equal score
RECURSIVE SortByScoreDesc_ties_reversed(_, _, _)
SortByScoreDesc_ties_reversed(items, i, placed) ==
    IF i > Len(items) THEN placed
    ELSE LET x == items[i]
             p == Cardinality({ k \in 1..Len(placed) : placed[k].score > x.score })
         IN  SortByScoreDesc_ties_reversed(items, i + 1,
                 SubSeq(placed, 1, p) \o <<x>> \o SubSeq(placed, p + 1, Len(placed)))

\* list.sort(key=score, reverse=True): stable, so an item goes behind every item
\* already placed whose score is >= its own
RECURSIVE SortByScoreDesc(_, _, _)
SortByScoreDesc(items, i, placed) ==
    IF i > Len(items) THEN placed
    ELSE LET x == items[i]
             p == Cardinality({ k \in 1..Len(placed) : placed[k].score >= x.score })
         IN  SortByScoreDesc(items, i + 1,
                             SubSeq(placed, 1, p) \o <<x>> \o SubSeq(placed, p + 1, Len(placed)))



\* "I think this stock is overvalued and the pe ratio is way too high for this kind of growth, would not buy right now"
Text_Overvalued ==
    Text(<< "I", " ", "t", "h", "i", "n", "k", " ", "t", "h", "i", "s", " ", "s", "t", "o", "c",
            "k", " ", "i", "s", " ", "o", "v", "e", "r", "v", "a", "l", "u", "e", "d", " ", "a",
            "n", "d", " ", "t", "h", "e", " ", "p", "e", " ", "r", "a", "t", "i", "o", " ", "i",
            "s", " ", "w", "a", "y", " ", "t", "o", "o", " ", "h", "i", "g", "h", " ", "f", "o",
            "r", " ", "t", "h", "i", "s", " ", "k", "i", "n", "d", " ", "o", "f", " ", "g", "r",
            "o", "w", "t", "h", ",", " ", "w", "o", "u", "l", "d", " ", "n", "o", "t", " ", "b",
            "u", "y", " ", "r", "i", "g", "h", "t", " ", "n", "o", "w" >>)

\* "first! who else is here"
Text_First ==
    Text(<< "f", "i", "r", "s", "t", "!", " ", "w", "h", "o", " ", "e", "l", "s", "e", " ", "i",
            "s", " ", "h", "e", "r", "e" >>)

\* "a b c d e f g h i j buy"
Text_ShortChars ==
    Text(<< "a", " ", "b", " ", "c", " ", "d", " ", "e", " ", "f", " ", "g", " ", "h", " ", "i",
            " ", "j", " ", "b", "u", "y" >>)

\* "Great analysis of the stock, SUBSCRIBE to my channel for more buy and sell tips"
Text_Spam ==
    Text(<< "G", "r", "e", "a", "t", " ", "a", "n", "a", "l", "y", "s", "i", "s", " ", "o", "f",
            " ", "t", "h", "e", " ", "s", "t", "o", "c", "k", ",", " ", "S", "U", "B", "S", "C",
            "R", "I", "B", "E", " ", "t", "o", " ", "m", "y", " ", "c", "h", "a", "n", "n", "e",
            "l", " ", "f", "o", "r", " ", "m", "o", "r", "e", " ", "b", "u", "y", " ", "a", "n",
            "d", " ", "s", "e", "l", "l", " ", "t", "i", "p", "s" >>)

\* "BUY and HOLD for the Long Term, the dividend yield alone makes it worth it"
Text_Upper ==
    Text(<< "B", "U", "Y", " ", "a", "n", "d", " ", "H", "O", "L", "D", " ", "f", "o", "r", " ",
            "t", "h", "e", " ", "L", "o", "n", "g", " ", "T", "e", "r", "m", ",", " ", "t", "h",
            "e", " ", "d", "i", "v", "i", "d", "e", "n", "d", " ", "y", "i", "e", "l", "d", " ",
            "a", "l", "o", "n", "e", " ", "m", "a", "k", "e", "s", " ", "i", "t", " ", "w", "o",
            "r", "t", "h", " ", "i", "t" >>)

\* "the weather was really nice today and we all went out walking together"
Text_OffTopic ==
    Text(<< "t", "h", "e", " ", "w", "e", "a", "t", "h", "e", "r", " ", "w", "a", "s", " ", "r",
            "e", "a", "l", "l", "y", " ", "n", "i", "c", "e", " ", "t", "o", "d", "a", "y", " ",
            "a", "n", "d", " ", "w", "e", " ", "a", "l", "l", " ", "w", "e", "n", "t", " ", "o",
            "u", "t", " ", "w", "a", "l", "k", "i", "n", "g", " ", "t", "o", "g", "e", "t", "h",
            "e", "r" >>)

\* "i would sell this stock now, it has been going down for weeks and weeks"
Text_SellNow ==
    Text(<< "i", " ", "w", "o", "u", "l", "d", " ", "s", "e", "l", "l", " ", "t", "h", "i", "s",
            " ", "s", "t", "o", "c", "k", " ", "n", "o", "w", ",", " ", "i", "t", " ", "h", "a",
            "s", " ", "b", "e", "e", "n", " ", "g", "o", "i", "n", "g", " ", "d", "o", "w", "n",
            " ", "f", "o", "r", " ", "w", "e", "e", "k", "s", " ", "a", "n", "d", " ", "w", "e",
            "e", "k", "s" >>)

\* "i would buy this stock now, it has been going up for weeks and weeks"
Text_BuyNow ==
    Text(<< "i", " ", "w", "o", "u", "l", "d", " ", "b", "u", "y", " ", "t", "h", "i", "s", " ",
            "s", "t", "o", "c", "k", " ", "n", "o", "w", ",", " ", "i", "t", " ", "h", "a", "s",
            " ", "b", "e", "e", "n", " ", "g", "o", "i", "n", "g", " ", "u", "p", " ", "f", "o",
            "r", " ", "w", "e", "e", "k", "s", " ", "a", "n", "d", " ", "w", "e", "e", "k", "s" >>)

\* "a b c d e f g h i buy stock" followed by 20 spaces
Text_Padded ==
    Text(<< "a", " ", "b", " ", "c", " ", "d", " ", "e", " ", "f", " ", "g", " ", "h", " ", "i",
            " ", "b", "u", "y", " ", "s", "t", "o", "c", "k", " ", " ", " ", " ", " ", " ", " ",
            " ", " ", " ", " ", " ", " ", " ", " ", " ", " ", " ", " ", " " >>)
LongWordCount == 101

\* "la la la ... la": LongWordCount words, none of them a keyword
Text_Long ==
    Text([i \in 1..(3 * LongWordCount - 1) |->
            IF i % 3 = 1 THEN "l" ELSE IF i % 3 = 2 THEN "a" ELSE " "])

\* "la la ... la": n words, none of them a keyword
LaWords(n) ==
    [i \in 1..(3 * n - 1) |-> IF i % 3 = 1 THEN "l" ELSE IF i % 3 = 2 THEN "a" ELSE " "]

\* "buy la ... la": 30 words
Text_Buy30 == Text(<<"b", "u", "y", " ">> \o LaWords(29))

\* "buy la ... la": 31 words
Text_Buy31 == Text(<<"b", "u", "y", " ">> \o LaWords(30))

\* "hold la ... la": 50 words
Text_Hold50 == Text(<<"h", "o", "l", "d", " ">> \o LaWords(49))

\* "hold la ... la": 51 words
Text_Hold51 == Text(<<"h", "o", "l", "d", " ">> \o LaWords(50))

\* "la la ... la": 100 words
Text_La100 == Text(LaWords(100))

CommentPool ==
    { Comment("ann", Text_Overvalued), Comment("bob", Text_First),
      Comment("cat", Text_ShortChars), Comment("dan", Text_Spam),
      Comment("eve", Text_Upper), Comment("fay", Text_OffTopic),
      Comment("gus", Text_SellNow), Comment("hal", Text_BuyNow),
      Comment("ian", Text_Padded), Comment("joe", Text_Long),
      Comment("kim", None), Comment("lee", Text_Buy30),
      Comment("max", Text_Buy31), Comment("ned", Text_Hold50),
      Comment("oli", Text_Hold51), Comment("pam", Text_La100) }

\* Keeps and Scored of every pool comment whose text is a string, evaluated once
StringComments == { c \in CommentPool : c.text # None }

KeepsTable == [c \in StringComments |-> Keeps(c)]

ScoredTable == [c \in StringComments |-> Scored(c)]


\* the result of filter_financial_comments: [raised, out].  `None.lower()` raises
\* AttributeError at the first comment whose text is None.
filter_financial_comments(comments) ==
    IF \E i \in 1..Len(comments) : comments[i].text = None
    THEN [raised |-> TRUE, out |-> <<>>]
    ELSE LET kept   == SelectSeq(comments, LAMBDA c : KeepsTable[c])
             scored == [i \in 1..Len(kept) |-> ScoredTable[kept[i]]]
             sorted == SortByScoreDesc(scored, 1, <<>>)
         IN  [raised |-> FALSE, out |-> [i \in 1..Len(sorted) |-> sorted[i].comment]]

----------------------------------------------------------------------------
MaxComments == 2

RECURSIVE SeqsUpTo(_, _)
SeqsUpTo(S, n) ==
    IF n = 0 THEN { <<>> }
    ELSE LET shorter == SeqsUpTo(S, n - 1)
         IN  shorter \cup { Append(s, x) : s \in { q \in shorter : Len(q) = n - 1 }, x \in S }

FilterInit ==
    /\ f_pc = "call"
    /\ f_result = <<>>
    /\ f_comments \in SeqsUpTo(CommentPool, MaxComments)
    /\ m_pc = "idle" /\ m_metrics = EmptyDict /\ m_yahoo = EmptyDict
    /\ a_pc = "idle" /\ a_comments = <<>> /\ a_key = FALSE /\ a_outcome = [kind |-> "raise"]
    /\ a_calls = 0 /\ a_prompt = <<>> /\ a_result = EmptyDict
    /\ g_pc = "off" /\ g_ticker = None /\ g_key = FALSE /\ g_ytkey = FALSE /\ g_valid = FALSE
    /\ g_meta = EmptyDict /\ g_company_name = None /\ g_yahoo = EmptyDict /\ g_web = EmptyDict
    /\ g_yt_data = EmptyDict /\ g_yt_analysis = EmptyDict /\ g_metrics = EmptyDict
    /\ g_metrics_text = None /\ g_comparator_result = EmptyDict /\ g_fusion = [kind |-> "none"]
    /\ g_report = EmptyDict /\ g_raised = FALSE /\ g_calls = <<>> /\ g_llm_calls = 0
    /\ g_status = 0 /\ g_body = EmptyDict
    /\ p_pc = "idle" /\ p_key = FALSE /\ p_thread = <<>> /\ p_max_comments = 0
    /\ p_page = 0 /\ p_comments = <<>> /\ p_requests = 0 /\ p_result = <<>>
    /\ y_pc = "idle" /\ y_key = FALSE /\ y_search = EmptyDict /\ y_max_videos = 0
    /\ y_result = EmptyDict

Filter ==
    /\ f_pc = "call"
    /\ LET r == filter_financial_comments(f_comments)
       IN  IF r.raised
           THEN f_pc' = "raised" /\ f_result' = <<>>
           ELSE f_pc' = "returned" /\ f_result' = r.out
    /\ UNCHANGED <<f_comments, m_vars, a_vars, o_vars, p_vars, y_vars>>

FilterNext == Filter

\* the number of occurrences of x in the sequence s
Count(s, x) == Cardinality({ i \in 1..Len(s) : s[i] = x })

\* C4: the output of filter_financial_comments contains only comments of the input
\* (each at most as many times as it occurs in the input, none invented or
\* altered), is ordered by non-increasing relevance score, and every retained
\* comment has word count >= 10 and character length >= 40.
C4_FilterOutput ==
    f_pc = "returned" =>
        /\ \A i \in 1..Len(f_result) :
              /\ Count(f_result, f_result[i]) <= Count(f_comments, f_result[i])
              /\ WordCount(f_result[i].text.c) >= 10
              /\ Len(f_result[i].text.c) >= 40
        /\ \A i, j \in 1..Len(f_result) :
              i < j => ScoredTable[f_result[i]].score >= ScoredTable[f_result[j]].score

C4_Witness ==
    /\ f_pc = "returned"
    /\ Len(f_comments) = 2
    /\ Len(f_result) = 2
    /\ f_result[1] = f_comments[2]
    /\ ScoredTable[f_result[1]].score > ScoredTable[f_result[2]].score

\* the keywords of weight w of the high-value table that occur in a text
HighValueHits(text, w) ==
    { i \in 1..Len(high_value_keywords) :
        high_value_keywords[i].weight = w /\ Contains(text, high_value_keywords[i].kw) }

\* the medium-value keywords that occur in a text
MediumValueHits(text) ==
    { i \in 1..Len(medium_value_keywords) : Contains(text, medium_value_keywords[i]) }

\* the score as stated: weights of the high-value keywords present, 1 per
\* medium-value keyword present, and the length bonus 1, 3 or 5
StatedScore(comment) ==
    LET text == Lower(comment.text.c)
        wc   == WordCount(text)
    IN  3 * Cardinality(HighValueHits(text, 3))
        + 2 * Cardinality(HighValueHits(text, 2))
        + Cardinality(HighValueHits(text, 1))
        + Cardinality(MediumValueHits(text))
        + (IF wc > 100 THEN 5 ELSE IF wc > 50 THEN 3 ELSE IF wc > 30 THEN 1 ELSE 0)

StatedScoreTable == [c \in StringComments |-> StatedScore(c)]

\* a spam phrase occurs in the text, in any letter case
StatedSpamTable == [c \in StringComments |-> IsSpam(Lower(c.text.c))]

\* the noise floor: at least 10 words and 40 characters
NoiseFloorTable ==
    [c \in StringComments |->
        WordCount(Lower(c.text.c)) >= 10 /\ StripLen(Lower(c.text.c)) >= 40]

Retained(c) == \E i \in 1..Len(f_result) : f_result[i] = c

\* C15: a comment that passes the noise floor and the spam check is retained if and
\* only if its score is >= 4, the score being the sum of the weights (1 to 3) of
\* the high-value keywords in the lower-cased text, 1 per medium-value keyword in
\* it, and the additive length bonuses (+1 above 30 words, +2 above 50, +2 above
\* 100); a comment holding a spam phrase in any letter case is never retained.
C15_ScoreThreshold ==
    /\ \A i \in 1..Len(high_value_keywords) : high_value_keywords[i].weight \in 1..3
    /\ f_pc = "returned" =>
          \A i \in 1..Len(f_comments) :
              LET c == f_comments[i]
              IN  /\ StatedSpamTable[c] => ~Retained(c)
                  /\ (NoiseFloorTable[c] /\ ~StatedSpamTable[c])
                        => (Retained(c) <=> StatedScoreTable[c] >= 4)

C15_Witness ==
    /\ f_pc = "returned"
    /\ f_comments = <<Comment("ned", Text_Hold50), Comment("oli", Text_Hold51)>>
    /\ f_result = <<Comment("oli", Text_Hold51)>>

\* C16: two retained comments of equal score appear in the output in the relative
\* order they have in the input: for every score, the output's comments of that
\* score are the input's retained comments of that score, in input order.
C16_StableSort ==
    f_pc = "returned" =>
        \A k \in 1..Len(f_result) :
            LET sc == ScoredTable[f_result[k]].score
            IN  SelectSeq(f_result, LAMBDA c : ScoredTable[c].score = sc)
                  = SelectSeq(f_comments,
                              LAMBDA c : Retained(c) /\ ScoredTable[c].score = sc)

C16_Witness ==
    /\ f_pc = "returned"
    /\ Len(f_result) = 2
    /\ f_result[1] # f_result[2]
    /\ ScoredTable[f_result[1]].score = ScoredTable[f_result[2]].score
    /\ f_result = f_comments

\* C17: every comment returned by filter_financial_comments contains at least one
\* keyword of the high-value or the medium-value table; none is retained on length
\* alone.
C17_RetainedHasKeyword ==
    f_pc = "returned" =>
        \A k \in 1..Len(f_result) :
            LET text == Lower(f_result[k].text.c)
            IN  \/ \E w \in 1..3 : HighValueHits(text, w) # {}
                \/ MediumValueHits(text) # {}


----------------------------------------------------------------------------
(* fetch_comments_for_video, fetch_youtube_comments_for_query *)

\* A comment thread is the non-empty sequence of pages the provider serves for one
\* video, in cursor order.  A page has a status and items; only the last page has
\* no nextPageToken.  An item is the comment dict built from it, or Malformed (an
\* item without the expected snippet, whose subscript raises KeyError).
Page(status, items) == [status |-> status, items |-> items]

Malformed == [t |-> "malformed"]

\* the items of one page the `for item` loop reads: it breaks as soon as
\* len(comments) >= max_comments, and is never entered with comments full
Taken_whole_page(items, comments, max_comments) == items

Taken(items, comments, max_comments) == FirstN(items, max_comments - Len(comments))

\* the paging loop from page i with `comments` collected and `requests` sent
RECURSIVE PageLoop(_, _, _, _, _)
PageLoop(thread, i, comments, requests, max_comments) ==
    IF Len(comments) >= max_comments
    THEN [out |-> comments, requests |-> requests, forbidden |-> FALSE]
    ELSE LET page  == thread[i]
             taken == Taken(page.items, comments, max_comments)
         IN  IF page.status = 403
             THEN [out |-> <<>>, requests |-> requests + 1, forbidden |-> TRUE]
             ELSE IF page.status # 200
             THEN [out |-> <<>>, requests |-> requests + 1, forbidden |-> FALSE]
             ELSE IF \E k \in 1..Len(taken) : taken[k] = Malformed
             THEN [out |-> <<>>, requests |-> requests + 1, forbidden |-> FALSE]
             ELSE IF i = Len(thread)
             THEN [out |-> comments \o taken, requests |-> requests + 1,
                   forbidden |-> FALSE]
             ELSE PageLoop(thread, i + 1, comments \o taken, requests + 1, max_comments)

\* fetch_comments_for_video: [out, requests, forbidden]
fetch_comments_for_video(ytKey, thread, max_comments) ==
    IF ~ytKey THEN [out |-> <<>>, requests |-> 0, forbidden |-> FALSE]
    ELSE PageLoop(thread, 1, <<>>, 0, max_comments)

financial_keywords ==
    << <<"s", "t", "o", "c", "k">>,
       <<"i", "n", "v", "e", "s", "t">>,
       <<"e", "a", "r", "n", "i", "n", "g", "s">>,
       <<"a", "n", "a", "l", "y", "s", "i", "s">>,
       <<"b", "u", "y">>,
       <<"s", "e", "l", "l">>,
       <<"f", "i", "n", "a", "n", "c", "i", "a", "l">>,
       <<"d", "i", "v", "i", "d", "e", "n", "d">>,
       <<"v", "a", "l", "u", "a", "t", "i", "o", "n">>,
       <<"p", "o", "r", "t", "f", "o", "l", "i", "o">>,
       <<"m", "a", "r", "k", "e", "t">> >>

\* `any(keyword in title_lower for keyword in financial_keywords)`
is_financial(title) ==
    \E k \in 1..Len(financial_keywords) : Contains(Lower(title.c), financial_keywords[k])

TopComments == 3

YtEmpty(requests) ==
    [all_comments |-> <<>>, videos |-> <<>>, requests |-> requests, raised |-> TRUE]

\* `if videos_with_comments >= max_videos: break`, with the break never taken
enough_videos_never(videos_with_comments, max_videos) == FALSE

\* `if videos_with_comments >= max_videos: break`
enough_videos(videos_with_comments, max_videos) == videos_with_comments >= max_videos

\* the loop over the search result's videos.  A video is [id, title, thread]; an
\* id of None is an item without id.videoId, whose subscript raises KeyError.
\* `examined` is the number of search items the loop went through before leaving.
RECURSIVE VideoLoop(_, _, _, _, _, _, _, _)
VideoLoop(ytKey, videos, i, all_comments, summaries, requests, max_videos, max_comments) ==
    IF i > Len(videos) \/ enough_videos(Len(summaries), max_videos)
    THEN [all_comments |-> all_comments, videos |-> summaries, requests |-> requests,
          raised |-> FALSE, examined |-> i - 1]
    ELSE LET v == videos[i]
         IN  IF v.id = None THEN YtEmpty(requests)
             ELSE IF ~is_financial(v.title)
             THEN VideoLoop(ytKey, videos, i + 1, all_comments, summaries, requests,
                            max_videos, max_comments)
             ELSE LET got == fetch_comments_for_video(ytKey, v.thread, max_comments)
                      req == requests + got.requests
                  IN  IF got.out = <<>>
                      THEN VideoLoop(ytKey, videos, i + 1, all_comments, summaries, req,
                                     max_videos, max_comments)
                      ELSE LET rel == filter_financial_comments(got.out)
                           IN  IF rel.raised THEN YtEmpty(req)
                               ELSE IF rel.out = <<>>
                               THEN VideoLoop(ytKey, videos, i + 1, all_comments, summaries,
                                              req, max_videos, max_comments)
                               ELSE VideoLoop(ytKey, videos, i + 1, all_comments \o rel.out,
                                              Append(summaries,
                                                     [video_id |-> v.id, title |-> v.title,
                                                      top_comments |->
                                                          FirstN(rel.out, TopComments)]),
                                              req, max_videos, max_comments)

\* fetch_youtube_comments_for_query: all_comments and videos as returned, the number
\* of provider requests sent, and whether the except clause produced the result.
\* `search` is the provider's answer to the video search: [status, items].
fetch_youtube_comments_for_query(ytKey, search, max_videos, max_comments_per_video) ==
    IF ~ytKey
    THEN [all_comments |-> <<>>, videos |-> <<>>, requests |-> 0, raised |-> FALSE]
    ELSE IF search.status = 403
    THEN [all_comments |-> <<>>, videos |-> <<>>, requests |-> 1, raised |-> FALSE]
    ELSE IF search.status # 200 THEN YtEmpty(1)
    ELSE VideoLoop(ytKey, search.items, 1, <<>>, <<>>, 1, max_videos,
                   max_comments_per_video)

\* "AAPL Stock Analysis"
Title_Analysis == Text(<<"A", "A", "P", "L", " ", "S", "t", "o", "c", "k", " ", "A", "n", "a", "l", "y", "s", "i", "s">>)

\* "Funny cats"
Title_Cats == Text(<<"F", "u", "n", "n", "y", " ", "c", "a", "t", "s">>)

Video(id, title, thread) == [id |-> id, title |-> title, thread |-> thread]

----------------------------------------------------------------------------
(* fetch_comments_for_video, one call, one provider request per step *)

MaxPages == 3

MaxPerVideo == 3

\* the pages a provider may serve for a comment thread
PagePool ==
    { Page(200, <<>>),
      Page(200, <<Comment("ann", Text_Overvalued)>>),
      Page(200, <<Comment("bob", Text_First), Comment("gus", Text_SellNow)>>),
      Page(200, <<Comment("hal", Text_BuyNow), Malformed>>),
      Page(403, <<>>),
      Page(500, <<>>) }

Threads == SeqsUpTo(PagePool, MaxPages) \ { <<>> }

PagingInit ==
    /\ p_pc = "call"
    /\ p_key \in BOOLEAN
    /\ p_thread \in Threads
    /\ p_max_comments \in 0..MaxPerVideo
    /\ p_page = 1
    /\ p_comments = <<>>
    /\ p_requests = 0
    /\ p_result = <<>>
    /\ m_pc = "idle" /\ m_metrics = EmptyDict /\ m_yahoo = EmptyDict
    /\ f_pc = "idle" /\ f_result = <<>> /\ f_comments = <<>>
    /\ a_pc = "idle" /\ a_comments = <<>> /\ a_key = FALSE /\ a_outcome = [kind |-> "raise"]
    /\ a_calls = 0 /\ a_prompt = <<>> /\ a_result = EmptyDict
    /\ g_pc = "off" /\ g_ticker = None /\ g_key = FALSE /\ g_ytkey = FALSE /\ g_valid = FALSE
    /\ g_meta = EmptyDict /\ g_company_name = None /\ g_yahoo = EmptyDict /\ g_web = EmptyDict
    /\ g_yt_data = EmptyDict /\ g_yt_analysis = EmptyDict /\ g_metrics = EmptyDict
    /\ g_metrics_text = None /\ g_comparator_result = EmptyDict /\ g_fusion = [kind |-> "none"]
    /\ g_report = EmptyDict /\ g_raised = FALSE /\ g_calls = <<>> /\ g_llm_calls = 0
    /\ g_status = 0 /\ g_body = EmptyDict
    /\ y_pc = "idle" /\ y_key = FALSE /\ y_search = EmptyDict /\ y_max_videos = 0
    /\ y_result = EmptyDict

\* `if not config.YOUTUBE_API_KEY: return []`, else `comments = []` and the loop
EnterFetch ==
    /\ p_pc = "call"
    /\ IF ~p_key
       THEN p_pc' = "returned" /\ p_result' = <<>>
       ELSE p_pc' = "loop" /\ UNCHANGED p_result
    /\ UNCHANGED <<p_key, p_thread, p_max_comments, p_page, p_comments, p_requests>>
    /\ UNCHANGED <<m_vars, f_vars, a_vars, o_vars, y_vars>>

\* one iteration of `while len(comments) < max_comments`: one requests.get, the 403
\* return, raise_for_status, the item loop and the nextPageToken test
RequestPage ==
    /\ p_pc = "loop"
    /\ Len(p_comments) < p_max_comments
    /\ LET page  == p_thread[p_page]
           taken == Taken(page.items, p_comments, p_max_comments)
       IN  /\ p_requests' = p_requests + 1
           /\ IF page.status # 200 \/ (\E k \in 1..Len(taken) : taken[k] = Malformed)
              THEN /\ p_pc' = "returned"
                   /\ p_result' = <<>>
                   /\ UNCHANGED <<p_comments, p_page>>
              ELSE /\ p_comments' = p_comments \o taken
                   /\ IF p_page = Len(p_thread)
                      THEN /\ p_pc' = "returned"
                           /\ p_result' = p_comments \o taken
                           /\ UNCHANGED p_page
                      ELSE /\ p_page' = p_page + 1
                           /\ UNCHANGED <<p_pc, p_result>>
    /\ UNCHANGED <<p_key, p_thread, p_max_comments>>
    /\ UNCHANGED <<m_vars, f_vars, a_vars, o_vars, y_vars>>

\* the loop condition fails: `return comments`
ReturnComments ==
    /\ p_pc = "loop"
    /\ Len(p_comments) >= p_max_comments
    /\ p_pc' = "returned"
    /\ p_result' = p_comments
    /\ UNCHANGED <<p_key, p_thread, p_max_comments, p_page, p_comments, p_requests>>
    /\ UNCHANGED <<m_vars, f_vars, a_vars, o_vars, y_vars>>

PagingNext == EnterFetch \/ RequestPage \/ ReturnComments

\* each step of the loop is a blocking HTTP call with a timeout: the call proceeds
SpecPaging == PagingInit /\ [][PagingNext]_vars /\ WF_vars(PagingNext)

\* the items of the first k pages of a thread, in page order
RECURSIVE ItemsUpTo(_, _)
ItemsUpTo(thread, k) ==
    IF k = 0 THEN <<>> ELSE ItemsUpTo(thread, k - 1) \o thread[k].items

\* every page is served with status 200 and well-formed items
OkThread(thread) ==
    \A i \in 1..Len(thread) :
        /\ thread[i].status = 200
        /\ \A k \in 1..Len(thread[i].items) : thread[i].items[k] # Malformed

\* the number of pages after which max_comments comments are available, or all pages
PagesNeeded(thread, max_comments) ==
    LET enough == { k \in 0..Len(thread) : Len(ItemsUpTo(thread, k)) >= max_comments }
    IN  IF enough = {} THEN Len(thread)
        ELSE CHOOSE k \in enough : \A j \in enough : k <= j

\* C20: fetch_comments_for_video follows the pages in cursor order and stops exactly
\* when max_comments comments are collected or no next page exists: it terminates,
\* never returns more than max_comments comments, returns them in provider page
\* order, and sends no request once max_comments is reached.
C20_PagingStops ==
    /\ [](p_pc # "idle" => Len(p_comments) <= p_max_comments)
    /\ [](p_pc = "returned" =>
            LET all == ItemsUpTo(p_thread, Len(p_thread))
                ret == fetch_comments_for_video(p_key, p_thread, p_max_comments)
            IN  /\ Len(p_result) <= p_max_comments
                /\ p_result = FirstN(all, Len(p_result))
                /\ p_requests <= Len(p_thread)
                /\ (p_key /\ OkThread(p_thread)) =>
                      /\ p_result = FirstN(all, p_max_comments)
                      /\ p_requests = PagesNeeded(p_thread, p_max_comments)
                /\ p_result = ret.out
                /\ p_requests = ret.requests)
    /\ [][Len(p_comments) >= p_max_comments => p_requests' = p_requests]_vars
    /\ <>(p_pc = "returned")

C20_Witness ==
    /\ p_pc = "returned"
    /\ OkThread(p_thread)
    /\ Len(p_thread) = 3
    /\ p_requests = 2
    /\ Len(p_result) = p_max_comments
    /\ Len(ItemsUpTo(p_thread, 3)) > p_max_comments

----------------------------------------------------------------------------
(* fetch_youtube_comments_for_query, one call *)

\* generate_company_report's arguments to fetch_youtube_comments_for_query
MaxVideos == 5

MaxCommentsPerVideo == 100

MaxSearchItems == 3

MaxVideosArg == 2

\* the items a video search may return
VideoPool ==
    { Video(Str("a"), Title_Analysis,
            <<Page(200, <<Comment("ann", Text_Overvalued), Comment("bob", Text_First)>>)>>),
      Video(Str("b"), Title_Analysis,
            <<Page(200, <<Comment("gus", Text_SellNow)>>),
              Page(200, <<Comment("hal", Text_BuyNow)>>)>>),
      Video(Str("c"), Title_Cats, <<Page(200, <<Comment("ann", Text_Overvalued)>>)>>),
      Video(Str("d"), Title_Analysis, <<Page(200, <<Comment("fay", Text_OffTopic)>>)>>),
      Video(Str("e"), Title_Analysis, <<Page(200, <<>>)>>),
      Video(Str("f"), Title_Analysis, <<Page(403, <<>>)>>),
      Video(None, Title_Analysis, <<Page(200, <<>>)>>),
      Video(Str("h"), Title_Analysis, <<Page(200, <<Comment("kim", None)>>)>>) }

Searches ==
    { Page(403, <<>>), Page(500, <<>>) }
        \cup { Page(200, items) : items \in SeqsUpTo(VideoPool, MaxSearchItems) }

QueryInit ==
    /\ y_pc = "call"
    /\ y_key \in BOOLEAN
    /\ y_search \in Searches
    /\ y_max_videos \in 1..MaxVideosArg
    /\ y_result = EmptyDict
    /\ m_pc = "idle" /\ m_metrics = EmptyDict /\ m_yahoo = EmptyDict
    /\ f_pc = "idle" /\ f_result = <<>> /\ f_comments = <<>>
    /\ a_pc = "idle" /\ a_comments = <<>> /\ a_key = FALSE /\ a_outcome = [kind |-> "raise"]
    /\ a_calls = 0 /\ a_prompt = <<>> /\ a_result = EmptyDict
    /\ g_pc = "off" /\ g_ticker = None /\ g_key = FALSE /\ g_ytkey = FALSE /\ g_valid = FALSE
    /\ g_meta = EmptyDict /\ g_company_name = None /\ g_yahoo = EmptyDict /\ g_web = EmptyDict
    /\ g_yt_data = EmptyDict /\ g_yt_analysis = EmptyDict /\ g_metrics = EmptyDict
    /\ g_metrics_text = None /\ g_comparator_result = EmptyDict /\ g_fusion = [kind |-> "none"]
    /\ g_report = EmptyDict /\ g_raised = FALSE /\ g_calls = <<>> /\ g_llm_calls = 0
    /\ g_status = 0 /\ g_body = EmptyDict
    /\ p_pc = "idle" /\ p_key = FALSE /\ p_thread = <<>> /\ p_max_comments = 0
    /\ p_page = 0 /\ p_comments = <<>> /\ p_requests = 0 /\ p_result = <<>>

FetchQuery ==
    /\ y_pc = "call"
    /\ y_result' = fetch_youtube_comments_for_query(y_key, y_search, y_max_videos,
                                                    MaxCommentsPerVideo)
    /\ y_pc' = "returned"
    /\ UNCHANGED <<y_key, y_search, y_max_videos>>
    /\ UNCHANGED <<m_vars, f_vars, a_vars, o_vars, p_vars>>

QueryNext == FetchQuery

SpecQuery == QueryInit /\ [][QueryNext]_vars

\* a search item whose comments were fetched and of which at least one survives
\* filter_financial_comments
Yields(v) ==
    /\ v.id # None
    /\ is_financial(v.title)
    /\ LET got == fetch_comments_for_video(TRUE, v.thread, MaxCommentsPerVideo).out
       IN  /\ got # <<>>
           /\ ~filter_financial_comments(got).raised
           /\ filter_financial_comments(got).out # <<>>

\* the positions of the yielding items of a search result
YieldingAt(items) == { i \in 1..Len(items) : Yields(items[i]) }

\* the position of the k-th yielding item
NthYielding(items, k) ==
    CHOOSE i \in YieldingAt(items) : Cardinality({ j \in YieldingAt(items) : j <= i }) = k

\* C13: the video loop stops as soon as max_videos videos have each yielded at
\* least one comment surviving the filter; a video without fetched or surviving
\* comments is skipped, not counted, and does not end the loop.  The returned
\* videos are the yielding videos met, at most max_videos, and all_comments is
\* non-empty exactly when videos is.
C13_VideoLoopStops ==
    y_pc = "returned" =>
        /\ Len(y_result.videos) <= y_max_videos
        /\ (y_result.all_comments # <<>>) <=> (y_result.videos # <<>>)
        /\ (y_key /\ y_search.status = 200 /\ ~y_result.raised) =>
              LET items == y_search.items
                  stop  == IF Cardinality(YieldingAt(items)) >= y_max_videos
                           THEN NthYielding(items, y_max_videos)
                           ELSE Len(items)
              IN  /\ y_result.examined = stop
                  /\ Len(y_result.videos)
                        = Cardinality({ i \in YieldingAt(items) : i <= stop })
                  /\ \A k \in 1..Len(y_result.videos) :
                        y_result.videos[k].video_id = items[NthYielding(items, k)].id

C13_Witness ==
    /\ y_pc = "returned"
    /\ y_key
    /\ y_search.status = 200
    /\ ~y_result.raised
    /\ Len(y_search.items) = 3
    /\ ~Yields(y_search.items[1])
    /\ Len(y_result.videos) = y_max_videos
    /\ y_result.examined = 2

\* C14: a 403 answered by the video provider, on the search or on a comment-thread
\* page of a video, ends the whole fetch: the result has no comments and no videos
\* and no request is sent for another video.
C14_ForbiddenShortCircuits ==
    (y_pc = "returned" /\ y_key) =>
        /\ y_search.status = 403 =>
              /\ y_result.all_comments = <<>>
              /\ y_result.videos = <<>>
              /\ y_result.requests = 1
        /\ (/\ y_search.status = 200
            /\ y_search.items # <<>>
            /\ y_search.items[1].id # None
            /\ is_financial(y_search.items[1].title)
            /\ y_search.items[1].thread[1].status = 403) =>
              /\ y_result.all_comments = <<>>
              /\ y_result.videos = <<>>
              /\ y_result.requests = 2

----------------------------------------------------------------------------
(* safe_truncate, anthropic_complete, analyze_comments_with_anthropic *)

Dots == <<".", ".", ".">>

\* safe_truncate(text, max_len): a falsy text (None, "") is returned as it is
safe_truncate(text, max_len) ==
    IF ~Truthy(text) THEN text
    ELSE IF Len(text.c) <= max_len THEN text
    ELSE Text(SubSeq(text.c, 1, max_len) \o Dots)

SampleSize == 30

SampleTextLen == 800

\* the loop building sample_texts: `c.get("body") or c.get("text") or ""`, truncated
sample_texts(comments) ==
    LET sample == FirstN(comments, SampleSize)
    IN  [i \in 1..Len(sample) |->
            safe_truncate(Or(Or(Get(sample[i], "body"), Get(sample[i], "text")), Text(<<>>)),
                          SampleTextLen)]

\* An LLM response is a sequence of tokens.  LB and RB are the characters { and },
\* WS is whitespace, JUNK is any text without braces, and an M_* token is a
\* well-formed comma-separated list of JSON members.
MemberTokens == {"M_bullish", "M_mixed", "M_nosentiment"}

RespTokens == {"LB", "RB", "WS", "JUNK"} \cup MemberTokens

\* the dict a member list decodes to
MembersOf(tok) ==
    CASE tok = "M_bullish"     -> [sentiment |-> Str("bullish"), summary |-> Str("s"),
                                   themes |-> List(<<>>)]
      [] tok = "M_mixed"       -> [sentiment |-> Str("mixed"), summary |-> Str("s")]
      [] tok = "M_nosentiment" -> [source |-> Str("model"), summary |-> Str("s")]

\* the outcome of one provider call: the call raises, or returns a text
LLMRaise == [kind |-> "raise"]

LLMText(tokens) == [kind |-> "text", v |-> tokens]

\* anthropic_complete: RuntimeError when ANTHROPIC_API_KEY is not configured, else
\* whatever the provider call does
anthropic_complete(keySet, outcome) == IF ~keySet THEN LLMRaise ELSE outcome

\* str.strip() on a response
RECURSIVE StripLeft(_)
StripLeft(s) == IF s # <<>> /\ Head(s) = "WS" THEN StripLeft(Tail(s)) ELSE s

RECURSIVE StripRight(_)
StripRight(s) ==
    IF s # <<>> /\ s[Len(s)] = "WS" THEN StripRight(SubSeq(s, 1, Len(s) - 1)) ELSE s

Strip(s) == StripRight(StripLeft(s))

\* str.find / str.rfind of a one-character token, 1-based, 0 for "not found" (-1)
Find(s, tok) ==
    IF \E i \in 1..Len(s) : s[i] = tok
    THEN CHOOSE i \in 1..Len(s) : s[i] = tok /\ \A j \in 1..(i - 1) : s[j] # tok
    ELSE 0

RFind(s, tok) ==
    IF \E i \in 1..Len(s) : s[i] = tok
    THEN CHOOSE i \in 1..Len(s) : s[i] = tok /\ \A j \in (i + 1)..Len(s) : s[j] # tok
    ELSE 0

\* json.loads(span): [ok, value].  Whitespace between tokens is insignificant; the
\* span parses when it is one object: { } or { members }.
json_loads(span) ==
    LET toks == SelectSeq(span, LAMBDA x : x # "WS")
    IN  IF toks = <<"LB", "RB">> THEN [ok |-> TRUE, value |-> EmptyDict]
        ELSE IF Len(toks) = 3 /\ toks[1] = "LB" /\ toks[3] = "RB" /\ toks[2] \in MemberTokens
        THEN [ok |-> TRUE, value |-> MembersOf(toks[2])]
        ELSE [ok |-> FALSE, value |-> EmptyDict]

\* dict.setdefault(k, v)
SetDefault(d, k, v) == IF k \in DOMAIN d THEN d ELSE (k :> v) @@ d

\* the raw response as a dict value
Raw(tokens) == [t |-> "resp", v |-> tokens]

\* the parsing of the response, lines 463-473
parse_response(resp, source_name) ==
    LET text    == Strip(resp)
        start   == Find(text, "LB")
        end     == RFind(text, "RB")
        \* text[start : end + 1] is empty when end < start
        span    == IF start <= end THEN SubSeq(text, start, end) ELSE <<>>
        parsed  == json_loads(span)
    IN  IF start # 0 /\ end # 0 /\ parsed.ok
        THEN SetDefault(parsed.value, "source", Str(source_name))
        ELSE [source |-> Str(source_name), summary |-> Raw(resp)]

\* an empty comment list returns before any prompt is built
analyze_empty(source_name) ==
    [source |-> Str(source_name), summary |-> Str(""), sentiment |-> Str("neutral"),
     themes |-> List(<<>>), representative |-> List(<<>>)]

analyze_failed(source_name) ==
    [source |-> Str(source_name), summary |-> Str("(analysis failed)"),
     sentiment |-> Str("unknown"), themes |-> List(<<>>), representative |-> List(<<>>)]

\* analyze_comments_with_anthropic without the `if not comments` early return
analyze_no_early_return(comments, source_name, keySet, outcome) ==
    LET resp == anthropic_complete(keySet, outcome)
    IN  [calls  |-> 1,
         prompt |-> sample_texts(comments),
         result |-> IF resp.kind = "raise" THEN analyze_failed(source_name)
                    ELSE parse_response(resp.v, source_name)]

\* analyze_comments_with_anthropic: the returned dict, the prompt's sample texts
\* and the number of anthropic_complete invocations
analyze_comments_with_anthropic(comments, source_name, keySet, outcome) ==
    IF comments = <<>>
    THEN [calls |-> 0, prompt |-> <<>>, result |-> analyze_empty(source_name)]
    ELSE LET resp == anthropic_complete(keySet, outcome)
         IN  [calls  |-> 1,
              prompt |-> sample_texts(comments),
              result |-> IF resp.kind = "raise" THEN analyze_failed(source_name)
                         ELSE parse_response(resp.v, source_name)]

----------------------------------------------------------------------------
(* Inputs of analyze_comments_with_anthropic *)

MaxRespLen == 3

Responses == { LLMText(s) : s \in SeqsUpTo(RespTokens, MaxRespLen) }

LLMOutcomes == {LLMRaise} \cup Responses

\* one character more than the sample text length: "aa ... a"
Text_OverSample == Text([i \in 1..(SampleTextLen + 1) |-> "a"])

\* one comment more than the sample size, the authors numbered in input order
OverSample ==
    [i \in 1..(SampleSize + 1) |->
        [author |-> Num(i), text |-> IF i % 2 = 0 THEN Text_First ELSE Text_SellNow]]

AnalyzeInputs ==
    { <<>>,
      <<Comment("ann", Text_Overvalued)>>,
      <<Comment("eve", Text_Upper), Comment("gus", Text_SellNow)>>,
      <<Comment("ann", Text_Overvalued), Comment("quin", Text_OverSample)>>,
      OverSample }

AnalyzeInit ==
    /\ a_pc = "call"
    /\ a_comments \in AnalyzeInputs
    /\ a_key \in BOOLEAN
    /\ a_outcome = LLMRaise
    /\ a_calls = 0
    /\ a_prompt = <<>>
    /\ a_result = EmptyDict
    /\ m_pc = "idle" /\ m_metrics = EmptyDict /\ m_yahoo = EmptyDict
    /\ f_pc = "idle" /\ f_result = <<>> /\ f_comments = <<>>
    /\ g_pc = "off" /\ g_ticker = None /\ g_key = FALSE /\ g_ytkey = FALSE /\ g_valid = FALSE
    /\ g_meta = EmptyDict /\ g_company_name = None /\ g_yahoo = EmptyDict /\ g_web = EmptyDict
    /\ g_yt_data = EmptyDict /\ g_yt_analysis = EmptyDict /\ g_metrics = EmptyDict
    /\ g_metrics_text = None /\ g_comparator_result = EmptyDict /\ g_fusion = [kind |-> "none"]
    /\ g_report = EmptyDict /\ g_raised = FALSE /\ g_calls = <<>> /\ g_llm_calls = 0
    /\ g_status = 0 /\ g_body = EmptyDict
    /\ p_pc = "idle" /\ p_key = FALSE /\ p_thread = <<>> /\ p_max_comments = 0
    /\ p_page = 0 /\ p_comments = <<>> /\ p_requests = 0 /\ p_result = <<>>
    /\ y_pc = "idle" /\ y_key = FALSE /\ y_search = EmptyDict /\ y_max_videos = 0
    /\ y_result = EmptyDict

\* one call of analyze_comments_with_anthropic(a_comments, "YouTube"); `outcome` is
\* what the provider does if it is called
Analyze ==
    /\ a_pc = "call"
    /\ \E outcome \in LLMOutcomes :
          LET r == analyze_comments_with_anthropic(a_comments, "YouTube", a_key, outcome)
          IN  /\ a_outcome' = IF r.calls = 0 THEN LLMRaise
                              ELSE anthropic_complete(a_key, outcome)
              /\ a_calls' = r.calls
              /\ a_prompt' = r.prompt
              /\ a_result' = r.result
    /\ a_pc' = "returned"
    /\ UNCHANGED <<a_comments, a_key, m_vars, f_vars, o_vars, p_vars, y_vars>>

AnalyzeNext == Analyze

\* the provider was called and answered with a text
a_answered == a_pc = "returned" /\ a_calls = 1 /\ a_outcome.kind = "text"

\* the JSON span of the answer, as parse_response cuts it
a_span ==
    LET text == Strip(a_outcome.v)
    IN  IF Find(text, "LB") # 0 /\ Find(text, "LB") <= RFind(text, "RB")
        THEN SubSeq(text, Find(text, "LB"), RFind(text, "RB")) ELSE <<>>

\* the answer cannot be parsed: no { or no }, or the span is not valid JSON
a_unparseable ==
    LET text == Strip(a_outcome.v)
    IN  Find(text, "LB") = 0 \/ RFind(text, "RB") = 0 \/ ~json_loads(a_span).ok

Sentiments == { Str("bullish"), Str("bearish"), Str("neutral"), Str("unknown") }

\* C5: called with an empty comment list, analyze_comments_with_anthropic never
\* invokes anthropic_complete (even when the API key is unset) and returns an
\* analysis with sentiment = neutral and summary = "".
C5_EmptyNoProviderCall ==
    (a_pc = "returned" /\ a_comments = <<>>)
        => /\ a_calls = 0
           /\ Get(a_result, "sentiment") = Str("neutral")
           /\ Get(a_result, "summary") = Str("")

C5_Witness ==
    a_pc = "returned" /\ a_comments = <<>> /\ ~a_key /\ "source" \in DOMAIN a_result

\* C6: when the LLM response cannot be parsed as JSON, the returned analysis has a
\* sentiment field, equal to unknown, and its summary carries the raw text.
C6_ParseFailureUnknown ==
    (a_answered /\ a_unparseable)
        => /\ "sentiment" \in DOMAIN a_result
           /\ Get(a_result, "sentiment") = Str("unknown")
           /\ Get(a_result, "summary") = Raw(a_outcome.v)

\* C7: every analysis returned by analyze_comments_with_anthropic, on every path,
\* has a sentiment field whose value is bullish, bearish, neutral or unknown.
C7_SentimentInEnum ==
    a_pc = "returned"
        => ("sentiment" \in DOMAIN a_result /\ a_result["sentiment"] \in Sentiments)

----------------------------------------------------------------------------
(* compute_company_metrics *)

ShortWindow == 50

LongWindow == 200

ShortFallback == 10

LongFallback == 50

\* float(c) of a row value: a number converts, NaN stays NaN
ToFloat(c) == c

\* int(v) raises ValueError on NaN
IntRaises(v) == v.t = "nan"

\* `c = row.get("Close") or row.get("close")`
RowClose(row) == Or(Get(row, "Close"), Get(row, "close"))

\* `v = row.get("Volume") or row.get("volume")`
RowVolume(row) == Or(Get(row, "Volume"), Get(row, "volume"))

\* the loop over history rows: the closes (floats) kept, in row order
ClosesOf(history) ==
    LET kept == SelectSeq(history, LAMBDA row : RowClose(row) # None)
    IN  [i \in 1..Len(kept) |-> ToFloat(RowClose(kept[i]))]

\* the loop over history rows: the volumes (ints) kept; int(v) raising skips the row
VolumesOf(history) ==
    LET kept == SelectSeq(history,
                          LAMBDA row : RowVolume(row) # None /\ ~IntRaises(RowVolume(row)))
    IN  [i \in 1..Len(kept) |-> RowVolume(kept[i])]

HasNaN(values) == \E i \in 1..Len(values) : values[i].t = "nan"

RECURSIVE SumFrom(_, _)
SumFrom(values, i) ==
    IF i > Len(values) THEN 0 ELSE values[i].n + SumFrom(values, i + 1)

SumNum(values) == SumFrom(values, 1)

\* sum(values) / n for floats: NaN as soon as one operand is NaN
Mean(values, n) ==
    IF HasNaN(values) THEN NaN ELSE Rat(SumNum(values), n)

\* values[-window:]
LastN(values, window) == SubSeq(values, Len(values) - window + 1, Len(values))

moving_average(values, window) ==
    IF Len(values) < window THEN None
    ELSE Mean(LastN(values, window), window)

\* (closes[-1] - closes[0]) / closes[0] * 100.0, None on ZeroDivisionError
pct_change(closes) ==
    LET first == closes[1]
        last  == closes[Len(closes)]
    IN  IF IsNum(first) /\ first.n = 0 THEN None
        ELSE IF ~IsNum(first) \/ ~IsNum(last) THEN NaN
        ELSE Rat((last.n * first.d - first.n * last.d) * 100, first.n * last.d)

\* (closes[i] - closes[i-1]) / closes[i-1]
Return(a, b) ==
    IF ~IsNum(a) \/ ~IsNum(b) THEN NaN
    ELSE Rat(a.n * b.d - b.n * a.d, b.n * a.d)

\* the returns loop; a zero divisor raises ZeroDivisionError and that pair is skipped
ReturnsOf(closes) ==
    LET pairs == [i \in 1..(IF Len(closes) = 0 THEN 0 ELSE Len(closes) - 1) |-> i + 1]
        kept  == SelectSeq(pairs, LAMBDA i : ~(IsNum(closes[i - 1]) /\ closes[i - 1].n = 0))
    IN  [k \in 1..Len(kept) |-> Return(closes[kept[k]], closes[kept[k] - 1])]

\* statistics.pstdev replaced by a spread that is never exactly 0
Volatility_never_zero(returns, nanRaises) ==
    IF HasNaN(returns) THEN (IF nanRaises THEN [t |-> "raise"] ELSE NaN)
    ELSE [t |-> "pos"]

\* statistics.pstdev(returns) * math.sqrt(252).  The value is kept by its class:
\* exactly 0 when all returns are equal, an unnamed positive number otherwise.
\* On NaN data pstdev raises AttributeError in some library versions (CPython 3.11)
\* and returns NaN in others: `nanRaises` is that choice.
Volatility(returns, nanRaises) ==
    IF HasNaN(returns) THEN (IF nanRaises THEN [t |-> "raise"] ELSE NaN)
    ELSE IF \A i \in 1..Len(returns) : returns[i] = returns[1] THEN Num(0)
    ELSE [t |-> "pos"]

\* compute_company_metrics with the derived fields initialised to 0 before the
\* history is read
compute_company_metrics_zero_defaults(yahoo, nanRaises) ==
    LET info    == IF "info" \in DOMAIN yahoo THEN yahoo["info"] ELSE EmptyDict
        history == Or(Get(yahoo, "history"), List(<<>>)).v
        closes  == ClosesOf(history)
        volumes == VolumesOf(history)
    IN  [market_cap  |-> Get(info, "marketCap"),
         trailing_pe |-> Get(info, "trailingPE"),
         forward_pe  |-> Get(info, "forwardPE"),
         beta        |-> Get(info, "beta"),
         sector      |-> Get(info, "sector"),
         industry    |-> Get(info, "industry"),
         period_pct_change |-> IF closes = <<>> THEN Num(0) ELSE pct_change(closes),
         ma_50 |-> Num(0), ma_200 |-> Num(0),
         volatility_annual_approx |-> Num(0),
         avg_volume |-> IF volumes = <<>> THEN Num(0)
                        ELSE Rat(SumNum(volumes), Len(volumes))]

\* the dict returned by compute_company_metrics, or [raised |-> TRUE]
compute_company_metrics(yahoo, nanRaises) ==
    LET info    == IF "info" \in DOMAIN yahoo THEN yahoo["info"] ELSE EmptyDict
        history == Or(Get(yahoo, "history"), List(<<>>)).v
        base    == [market_cap  |-> Get(info, "marketCap"),
                    trailing_pe |-> Get(info, "trailingPE"),
                    forward_pe  |-> Get(info, "forwardPE"),
                    beta        |-> Get(info, "beta"),
                    sector      |-> Get(info, "sector"),
                    industry    |-> Get(info, "industry")]
        closes  == ClosesOf(history)
        volumes == VolumesOf(history)
        returns == ReturnsOf(closes)
        vol     == IF returns # <<>> THEN Volatility(returns, nanRaises) ELSE None
        derived == IF closes # <<>>
                   THEN [period_pct_change |-> pct_change(closes),
                         ma_50  |-> Or(moving_average(closes, ShortWindow),
                                       moving_average(closes, Min(ShortFallback, Len(closes)))),
                         ma_200 |-> Or(moving_average(closes, LongWindow),
                                       moving_average(closes, Min(LongFallback, Len(closes)))),
                         volatility_annual_approx |-> vol]
                   ELSE EmptyDict
        volpart == IF volumes # <<>>
                   THEN [avg_volume |-> Rat(SumNum(volumes), Len(volumes))]
                   ELSE EmptyDict
    IN  IF closes # <<>> /\ vol.t = "raise"
        THEN [raised |-> TRUE]
        ELSE volpart @@ derived @@ base

----------------------------------------------------------------------------
(* validate_ticker, the fetchers of generate_company_report, format_metrics_text,
   compare_and_summarize *)

\* what reading `t.info` does: it raises, or yields a dict
InfoRaise == [kind |-> "raise"]

InfoIs(d) == [kind |-> "info", v |-> d]

\* `info.get("longName") or info.get("shortName")`
NameOf(info) == Or(Get(info, "longName"), Get(info, "shortName"))

\* validate_ticker: [ok, meta]
validate_ticker(ticker, infoOutcome) ==
    IF infoOutcome.kind = "raise"
    THEN [ok |-> FALSE,
          meta |-> [message |-> Str("Failed to fetch ticker info"), info |-> EmptyDict]]
    ELSE IF infoOutcome.v = EmptyDict
    THEN [ok |-> FALSE,
          meta |-> [message |-> Str("Ticker not found or no info available"),
                    info |-> EmptyDict]]
    ELSE IF ~Truthy(NameOf(infoOutcome.v))
    THEN [ok |-> FALSE,
          meta |-> [message |-> Str("Ticker appears invalid (no company name found)"),
                    info |-> infoOutcome.v]]
    ELSE [ok |-> TRUE,
          meta |-> [message |-> Str("ok"), name |-> NameOf(infoOutcome.v),
                    info |-> infoOutcome.v]]

\* what `t.history(period="90d")` does: it raises, or yields rows (maybe none)
HistRaise == [kind |-> "raise"]

HistIs(rows) == [kind |-> "rows", v |-> rows]

\* fetch_yahoo_company: the result dict; every provider failure is caught and leaves
\* the defaults in place
fetch_yahoo_company(infoOutcome, histOutcome) ==
    IF infoOutcome.kind = "raise"
    THEN [info |-> EmptyDict, summary |-> Str(""), history |-> None]
    ELSE LET info == infoOutcome.v
         IN  [info    |-> info,
              summary |-> Or(Or(Get(info, "longBusinessSummary"),
                                Get(info, "shortBusinessSummary")), Str("")),
              history |-> IF histOutcome.kind = "rows" /\ histOutcome.v # <<>>
                          THEN List(histOutcome.v) ELSE None]

\* extract_ticker_metadata_from_info
extract_ticker_metadata_from_info(info) ==
    IF info = EmptyDict THEN EmptyDict
    ELSE [name        |-> NameOf(info),
          sector      |-> Get(info, "sector"),
          industry    |-> Get(info, "industry"),
          market_cap  |-> Get(info, "marketCap"),
          trailing_pe |-> Get(info, "trailingPE"),
          forward_pe  |-> Get(info, "forwardPE"),
          beta        |-> Get(info, "beta"),
          website     |-> Get(info, "website"),
          country     |-> Get(info, "country")]

\* what the encyclopedia request does: it raises (network, status, malformed body),
\* or yields the pages of the answer
WikiRaise == [kind |-> "raise"]

WikiPages(pages) == [kind |-> "pages", v |-> pages]

\* fetch_wikipedia_summary: the first page that is not marked missing, else {}
fetch_wikipedia_summary(outcome) ==
    IF outcome.kind = "raise" THEN EmptyDict
    ELSE LET found == SelectSeq(outcome.v, LAMBDA page : "missing" \notin DOMAIN page)
         IN  IF found = <<>> THEN EmptyDict
             ELSE [title   |-> Get(found[1], "title"),
                   summary |-> Get(found[1], "extract"),
                   url     |-> Get(found[1], "fullurl")]

\* format_metrics_text: the text is kept as the list of the lines' labels, in order
MetricLine(metrics, key, label) ==
    IF Get(metrics, key) # None THEN <<label>> ELSE <<>>

format_metrics_text(metrics) ==
    IF metrics = EmptyDict THEN [t |-> "lines", v |-> <<"(no metrics available)">>]
    ELSE [t |-> "lines",
          v |-> (IF Truthy(Get(metrics, "sector")) THEN <<"Sector">> ELSE <<>>)
                \o MetricLine(metrics, "market_cap", "Market cap")
                \o MetricLine(metrics, "trailing_pe", "Trailing P/E")
                \o MetricLine(metrics, "forward_pe", "Forward P/E")
                \o MetricLine(metrics, "beta", "Beta")
                \o MetricLine(metrics, "period_pct_change", "Price change over sample")
                \o MetricLine(metrics, "ma_50", "MA-50 (approx)")
                \o MetricLine(metrics, "ma_200", "MA-200 (approx)")
                \o MetricLine(metrics, "volatility_annual_approx",
                              "Approx annual volatility (std)")
                \o MetricLine(metrics, "avg_volume", "Avg volume (sample)")]

ErrorMarkdown == Str("# Error\nLLM comparator failed to run.")

\* the summaries compare_and_summarize reads from its arguments
compare_inputs(yahoo, web) ==
    [yahoo_summary |-> Or(Get(yahoo, "summary"),
                          IF Get(yahoo, "info") # EmptyDict
                          THEN Get(yahoo["info"], "longBusinessSummary") ELSE Str("")),
     web_summary   |-> IF web # EmptyDict THEN Get(web, "summary") ELSE Str(""),
     metrics_text  |-> IF "_metrics_text" \in DOMAIN yahoo THEN yahoo["_metrics_text"]
                       ELSE Str("")]

\* compare_and_summarize with a failure path that returns no placeholder and
\* records no error
compare_and_summarize_silent(yahoo, web, social_summaries, keySet, outcome) ==
    LET resp == anthropic_complete(keySet, outcome)
    IN  [markdown |-> IF resp.kind = "raise" THEN Str("") ELSE Raw(resp.v),
         source   |-> Str("anthropic"),
         inputs   |-> compare_inputs(yahoo, web)]

\* compare_and_summarize: the provider's failure is caught and recorded
compare_and_summarize(yahoo, web, social_summaries, keySet, outcome) ==
    LET resp == anthropic_complete(keySet, outcome)
        base == [markdown |-> IF resp.kind = "raise" THEN ErrorMarkdown ELSE Raw(resp.v),
                 source   |-> Str("anthropic"),
                 inputs   |-> compare_inputs(yahoo, web)]
    IN  IF resp.kind = "raise"
        THEN ("error" :> Str("provider error")) @@ base
        ELSE base

\* str.upper() of the tickers of the model
UpperOf(ticker) ==
    CASE ticker.s = "aapl" -> Str("AAPL")
      [] ticker.s = "zzzz" -> Str("ZZZZ")
      [] OTHER             -> ticker

ReportKeys ==
    {"ticker", "company_name", "metadata", "yahoo", "wikipedia", "social_analyses",
     "youtube_videos", "metrics", "metrics_text", "comparator", "header"}

\* the report dict built at the end of generate_company_report
assemble_report(tick, name, yah, wiki, analysis, videos, mets, mtext, comparator) ==
    [ticker          |-> UpperOf(tick),
     company_name    |-> name,
     metadata        |-> extract_ticker_metadata_from_info(Get(yah, "info")),
     yahoo           |-> yah,
     wikipedia       |-> wiki,
     social_analyses |-> List(<<analysis>>),
     youtube_videos  |-> List(videos),
     metrics         |-> mets,
     metrics_text    |-> mtext,
     comparator      |-> comparator,
     header          |-> [title        |-> [company |-> name, ticker |-> UpperOf(tick)],
                          sources      |-> List(<<"Yahoo Finance", "Wikipedia", "YouTube">>),
                          generated_at |-> Str("utcnow")]]

\* the structured error returned when validation fails
validation_error(meta) ==
    [error |-> Str("ticker_validation_failed"), message |-> Get(meta, "message")]

\* pipeline continuing whatever validate_ticker answered
validation_gate_ignored(valid) == "yahoo"

\* `if not ok: return {...}`: where generate_company_report goes after validation
validation_gate(valid) == IF valid THEN "yahoo" ELSE "return"

----------------------------------------------------------------------------
(* Inputs of compute_company_metrics *)

HistLens == {0, 1, 2, 10, 49, 50, 91, 199, 200, 300}

TailLens == {0, 10}

CloseVals == {None, NaN, Num(0), Num(-1), Num(4), Num(150)}

VolumeVals == {None, NaN, Num(1000)}

\* a history of n rows: the first n - tail closes are v1 (+ step per row), the last
\* `tail` are v2 (+ step per row); the close is stored under `key`
Hist(n, tail, v1, v2, step, key, vol) ==
    [i \in 1..n |->
        LET v == IF i <= n - tail THEN v1 ELSE v2
            c == IF IsNum(v) /\ step # 0 THEN Num(v.n + step * i) ELSE v
        IN  (key :> c) @@ ("Volume" :> vol)]

Histories ==
    { List(Hist(n, tail, v1, v2, step, key, vol)) :
        n \in HistLens, tail \in TailLens, v1 \in CloseVals, v2 \in {Num(4), NaN},
        step \in {0, 1}, key \in {"Close", "close"}, vol \in VolumeVals }

----------------------------------------------------------------------------
(* post_report and generate_company_report, one request *)

\* provider behaviours of the model
ValidInfo ==
    [longName |-> Str("Apple Inc."), sector |-> Str("Technology"),
     marketCap |-> Num(3000), longBusinessSummary |-> Str("Apple designs phones.")]

ShortNameInfo == [longName |-> Str(""), shortName |-> Str("Apple")]

NamelessInfo == [sector |-> Str("Technology")]

ValidateOutcomes ==
    { InfoRaise, InfoIs(EmptyDict), InfoIs(NamelessInfo), InfoIs(ShortNameInfo),
      InfoIs(ValidInfo) }

YahooInfoOutcomes == { InfoRaise, InfoIs(ValidInfo) }

YahooHistOutcomes ==
    { HistRaise, HistIs(<<>>),
      HistIs(Hist(3, 0, Num(150), Num(4), 0, "Close", Num(1000))),
      HistIs(Hist(3, 1, Num(150), NaN, 0, "Close", NaN)) }

WikiOutcomes ==
    { WikiRaise,
      WikiPages(<<[missing |-> Str(""), title |-> Str("Apple Inc.")]>>),
      WikiPages(<<[title |-> Str("Apple Inc."), extract |-> Str("Apple is a company."),
                   fullurl |-> Str("https://en.wikipedia.org/wiki/Apple_Inc.")]>>) }

SearchOutcomes ==
    { Page(403, <<>>),
      Page(500, <<>>),
      Page(200, <<Video(Str("v1"), Title_Analysis,
                        <<Page(200, <<Comment("ann", Text_Overvalued),
                                      Comment("bob", Text_First)>>)>>)>>),
      Page(200, <<Video(Str("v1"), Title_Cats,
                        <<Page(200, <<Comment("ann", Text_Overvalued)>>)>>),
                  Video(Str("v2"), Title_Analysis, <<Page(403, <<>>)>>)>>),
      Page(200, <<Video(Str("v1"), Title_Analysis,
                        <<Page(200, <<Comment("kim", None)>>)>>)>>) }

AnalysisOutcomes ==
    { LLMRaise, LLMText(<<"JUNK">>), LLMText(<<"LB", "M_bullish", "RB">>) }

FusionOutcomes == { LLMRaise, LLMText(<<"JUNK">>) }

Tickers == { None, Str(""), Str("aapl") }

Init ==
    /\ g_pc = "idle"
    /\ g_ticker \in Tickers
    /\ g_key \in BOOLEAN
    /\ g_ytkey \in BOOLEAN
    /\ g_valid = FALSE
    /\ g_meta = EmptyDict
    /\ g_company_name = None
    /\ g_yahoo = EmptyDict
    /\ g_web = EmptyDict
    /\ g_yt_data = EmptyDict
    /\ g_yt_analysis = EmptyDict
    /\ g_metrics = EmptyDict
    /\ g_metrics_text = None
    /\ g_comparator_result = EmptyDict
    /\ g_fusion = [kind |-> "none"]
    /\ g_report = EmptyDict
    /\ g_raised = FALSE
    /\ g_calls = <<>>
    /\ g_llm_calls = 0
    /\ g_status = 0
    /\ g_body = EmptyDict
    /\ m_pc = "idle" /\ m_metrics = EmptyDict /\ m_yahoo = EmptyDict
    /\ f_pc = "idle" /\ f_result = <<>> /\ f_comments = <<>>
    /\ a_pc = "idle" /\ a_comments = <<>> /\ a_key = FALSE /\ a_outcome = [kind |-> "raise"]
    /\ a_calls = 0 /\ a_prompt = <<>> /\ a_result = EmptyDict
    /\ p_pc = "idle" /\ p_key = FALSE /\ p_thread = <<>> /\ p_max_comments = 0
    /\ p_page = 0 /\ p_comments = <<>> /\ p_requests = 0 /\ p_result = <<>>
    /\ y_pc = "idle" /\ y_key = FALSE /\ y_search = EmptyDict /\ y_max_videos = 0
    /\ y_result = EmptyDict

\* the statement order of generate_company_report with the metrics computed
\* before the comment analysis
next_stage_metrics_first(stage) ==
    CASE stage = "validate"  -> "yahoo"
      [] stage = "yahoo"     -> "wikipedia"
      [] stage = "wikipedia" -> "youtube"
      [] stage = "youtube"   -> "metrics"
      [] stage = "metrics"   -> "analyze"
      [] stage = "analyze"   -> "compare"
      [] stage = "compare"   -> "assemble"

\* the statement order of generate_company_report: the stage entered when `stage`
\* has returned normally
next_stage(stage) ==
    CASE stage = "validate"  -> "yahoo"
      [] stage = "yahoo"     -> "wikipedia"
      [] stage = "wikipedia" -> "youtube"
      [] stage = "youtube"   -> "analyze"
      [] stage = "analyze"   -> "metrics"
      [] stage = "metrics"   -> "compare"
      [] stage = "compare"   -> "assemble"

\* post_report up to the call of generate_company_report: a missing or empty
\* ticker is answered 400
PostReport ==
    /\ g_pc = "idle"
    /\ IF ~Truthy(g_ticker)
       THEN /\ g_pc' = "done"
            /\ g_status' = 400
            /\ g_body' = [detail |-> Str("ticker is required in JSON body")]
       ELSE /\ g_pc' = "validate"
            /\ UNCHANGED <<g_status, g_body>>
    /\ UNCHANGED <<g_ticker, g_key, g_ytkey, g_valid, g_meta, g_company_name, g_yahoo, g_web, g_yt_data,
                   g_yt_analysis, g_metrics, g_metrics_text, g_comparator_result, g_fusion, g_report,
                   g_raised, g_calls, g_llm_calls, m_vars, f_vars, a_vars, p_vars, y_vars>>

\* `ok, meta = validate_ticker(ticker)` and the return of the error dict
Validate ==
    /\ g_pc = "validate"
    /\ \E outcome \in ValidateOutcomes :
          LET r == validate_ticker(g_ticker, outcome)
          IN  /\ g_valid' = r.ok
              /\ g_meta' = r.meta
              /\ IF validation_gate(r.ok) = "return"
                 THEN /\ g_report' = validation_error(r.meta)
                      /\ g_pc' = "respond"
                      /\ UNCHANGED g_company_name
                 ELSE /\ g_company_name' = Get(r.meta, "name")
                      /\ g_pc' = next_stage("validate")
                      /\ UNCHANGED g_report
    /\ g_calls' = Append(g_calls, "validate_ticker")
    /\ UNCHANGED <<g_ticker, g_key, g_ytkey, g_yahoo, g_web, g_yt_data, g_yt_analysis, g_metrics,
                   g_metrics_text, g_comparator_result, g_fusion, g_raised, g_llm_calls, g_status, g_body,
                   m_vars, f_vars, a_vars, p_vars, y_vars>>

\* `yahoo = fetch_yahoo_company(ticker)`
FetchYahoo ==
    /\ g_pc = "yahoo"
    /\ \E io \in YahooInfoOutcomes, ho \in YahooHistOutcomes :
          g_yahoo' = fetch_yahoo_company(io, ho)
    /\ g_calls' = Append(g_calls, "fetch_yahoo_company")
    /\ g_pc' = next_stage("yahoo")
    /\ UNCHANGED <<g_ticker, g_key, g_ytkey, g_valid, g_meta, g_company_name, g_web, g_yt_data,
                   g_yt_analysis, g_metrics, g_metrics_text, g_comparator_result, g_fusion, g_report,
                   g_raised, g_llm_calls, g_status, g_body, m_vars, f_vars, a_vars, p_vars, y_vars>>

\* `web = fetch_wikipedia_summary(company_name)`
FetchWikipedia ==
    /\ g_pc = "wikipedia"
    /\ \E outcome \in WikiOutcomes : g_web' = fetch_wikipedia_summary(outcome)
    /\ g_calls' = Append(g_calls, "fetch_wikipedia_summary")
    /\ g_pc' = next_stage("wikipedia")
    /\ UNCHANGED <<g_ticker, g_key, g_ytkey, g_valid, g_meta, g_company_name, g_yahoo, g_yt_data,
                   g_yt_analysis, g_metrics, g_metrics_text, g_comparator_result, g_fusion, g_report,
                   g_raised, g_llm_calls, g_status, g_body, m_vars, f_vars, a_vars, p_vars, y_vars>>

\* `yt_data = fetch_youtube_comments_for_query(company_name, 5, 100)`
FetchYoutube ==
    /\ g_pc = "youtube"
    /\ \E search \in SearchOutcomes :
          LET r == fetch_youtube_comments_for_query(g_ytkey, search, MaxVideos,
                                                    MaxCommentsPerVideo)
          IN  g_yt_data' = [all_comments |-> r.all_comments, videos |-> r.videos]
    /\ g_calls' = Append(g_calls, "fetch_youtube_comments_for_query")
    /\ g_pc' = next_stage("youtube")
    /\ UNCHANGED <<g_ticker, g_key, g_ytkey, g_valid, g_meta, g_company_name, g_yahoo, g_web,
                   g_yt_analysis, g_metrics, g_metrics_text, g_comparator_result, g_fusion, g_report,
                   g_raised, g_llm_calls, g_status, g_body, m_vars, f_vars, a_vars, p_vars, y_vars>>

\* `yt_analysis = analyze_comments_with_anthropic(yt_comments, "YouTube")`
AnalyzeComments ==
    /\ g_pc = "analyze"
    /\ \E outcome \in AnalysisOutcomes :
          LET r == analyze_comments_with_anthropic(g_yt_data["all_comments"], "YouTube",
                                                   g_key, outcome)
          IN  /\ g_yt_analysis' = r.result
              /\ g_llm_calls' = g_llm_calls + r.calls
    /\ g_calls' = Append(g_calls, "analyze_comments_with_anthropic")
    /\ g_pc' = next_stage("analyze")
    /\ UNCHANGED <<g_ticker, g_key, g_ytkey, g_valid, g_meta, g_company_name, g_yahoo, g_web, g_yt_data,
                   g_metrics, g_metrics_text, g_comparator_result, g_fusion, g_report, g_raised,
                   g_status, g_body, m_vars, f_vars, a_vars, p_vars, y_vars>>

\* `metrics = compute_company_metrics(yahoo)`, `metrics_text = format_metrics_text(
\* metrics)` and `yahoo["_metrics_text"] = metrics_text`; an exception of
\* compute_company_metrics leaves generate_company_report
Metrics ==
    /\ g_pc = "metrics"
    /\ \E nanRaises \in BOOLEAN :
          LET r == compute_company_metrics(g_yahoo, nanRaises)
          IN  IF "raised" \in DOMAIN r
              THEN /\ g_raised' = TRUE
                   /\ g_pc' = "respond"
                   /\ g_calls' = Append(g_calls, "compute_company_metrics")
                   /\ UNCHANGED <<g_metrics, g_metrics_text, g_yahoo>>
              ELSE /\ g_metrics' = r
                   /\ g_metrics_text' = format_metrics_text(r)
                   /\ g_yahoo' = ("_metrics_text" :> format_metrics_text(r)) @@ g_yahoo
                   /\ g_calls' = g_calls \o <<"compute_company_metrics", "format_metrics_text">>
                   /\ g_pc' = next_stage("metrics")
                   /\ UNCHANGED g_raised
    /\ UNCHANGED <<g_ticker, g_key, g_ytkey, g_valid, g_meta, g_company_name, g_web, g_yt_data,
                   g_yt_analysis, g_comparator_result, g_fusion, g_report, g_llm_calls, g_status, g_body,
                   m_vars, f_vars, a_vars, p_vars, y_vars>>

\* `comparator_result = compare_and_summarize(yahoo, web, [yt_analysis])`
Compare ==
    /\ g_pc = "compare"
    /\ \E outcome \in FusionOutcomes :
          /\ g_comparator_result' =
                compare_and_summarize(g_yahoo, g_web, <<g_yt_analysis>>, g_key, outcome)
          /\ g_fusion' = anthropic_complete(g_key, outcome)
    /\ g_llm_calls' = g_llm_calls + 1
    /\ g_calls' = Append(g_calls, "compare_and_summarize")
    /\ g_pc' = next_stage("compare")
    /\ UNCHANGED <<g_ticker, g_key, g_ytkey, g_valid, g_meta, g_company_name, g_yahoo, g_web, g_yt_data,
                   g_yt_analysis, g_metrics, g_metrics_text, g_report, g_raised, g_status, g_body,
                   m_vars, f_vars, a_vars, p_vars, y_vars>>

\* the header and the report dict, and the return
Assemble ==
    /\ g_pc = "assemble"
    /\ g_report' = assemble_report(g_ticker, g_company_name, g_yahoo, g_web, g_yt_analysis,
                                 g_yt_data["videos"], g_metrics, g_metrics_text,
                                 g_comparator_result)
    /\ g_pc' = "respond"
    /\ UNCHANGED <<g_ticker, g_key, g_ytkey, g_valid, g_meta, g_company_name, g_yahoo, g_web, g_yt_data,
                   g_yt_analysis, g_metrics, g_metrics_text, g_comparator_result, g_fusion, g_raised,
                   g_calls, g_llm_calls, g_status, g_body, m_vars, f_vars, a_vars, p_vars, y_vars>>

\* a NaN anywhere in the returned dict's numbers
HasNaNValue(rep) ==
    /\ "metrics" \in DOMAIN rep
    /\ \/ \E k \in DOMAIN rep["metrics"] : rep["metrics"][k] = NaN
       \/ /\ rep["yahoo"]["history"] # None
          /\ \E i \in 1..Len(rep["yahoo"]["history"].v) :
                \E k \in DOMAIN rep["yahoo"]["history"].v[i] :
                    rep["yahoo"]["history"].v[i][k] = NaN

\* the rest of post_report: the report is serialised and answered 200; any
\* exception is answered 500.  Whether JSONResponse accepts a NaN is the web
\* framework's choice (`strict`).
Respond ==
    /\ g_pc = "respond"
    /\ \E strict \in BOOLEAN :
          IF g_raised \/ (strict /\ HasNaNValue(g_report))
          THEN /\ g_status' = 500
               /\ g_body' = [detail |-> Str("exception")]
          ELSE /\ g_status' = 200
               /\ g_body' = g_report
    /\ g_pc' = "done"
    /\ UNCHANGED <<g_ticker, g_key, g_ytkey, g_valid, g_meta, g_company_name, g_yahoo, g_web, g_yt_data,
                   g_yt_analysis, g_metrics, g_metrics_text, g_comparator_result, g_fusion, g_report,
                   g_raised, g_calls, g_llm_calls, m_vars, f_vars, a_vars, p_vars, y_vars>>

Next ==
    \/ PostReport
    \/ Validate
    \/ FetchYahoo
    \/ FetchWikipedia
    \/ FetchYoutube
    \/ AnalyzeComments
    \/ Metrics
    \/ Compare
    \/ Assemble
    \/ Respond

\* the request reached validate_ticker and validation failed
ValidationFailed == g_calls # <<>> /\ ~g_valid

\* generate_company_report has returned or raised
Returned == g_pc \in {"respond", "done"}

PipelineCalls ==
    {"fetch_yahoo_company", "fetch_wikipedia_summary", "fetch_youtube_comments_for_query",
     "analyze_comments_with_anthropic", "compute_company_metrics", "format_metrics_text",
     "compare_and_summarize"}

\* C1: whenever validate_ticker answers valid = false, generate_company_report
\* returns at once an object with only the fields error and message, and none of
\* the fetchers, the LLM passes or the metrics computation is invoked.
C1_ValidationFailureStops ==
    ValidationFailed
        => /\ Returned
           /\ DOMAIN g_report = {"error", "message"}
           /\ g_calls = <<"validate_ticker">>
           /\ g_llm_calls = 0

C1_Witness ==
    /\ g_pc = "done"
    /\ ValidationFailed
    /\ g_meta["info"] = NamelessInfo
    /\ g_report["error"] = Str("ticker_validation_failed")

\* C2: once validation has succeeded, generate_company_report never raises,
\* whatever the providers do, and returns a report with all its keys.
C2_NeverRaisesAfterValidation ==
    (g_valid /\ Returned) => (~g_raised /\ DOMAIN g_report = ReportKeys)

\* C3: a request whose ticker fails validation is answered with a 4xx status
\* carrying the validation-error object, never with a success status.
C3_ValidationFailure4xx ==
    (g_pc = "done" /\ ValidationFailed)
        => /\ g_status \in 400..499
           /\ g_body = validation_error(g_meta)

\* C8: when the provider fails during the fusion pass, compare_and_summarize
\* returns a non-empty placeholder markdown and records the error, and
\* generate_company_report returns the full report, its other fields holding what
\* the earlier stages computed; the fusion pass changes none of them.
C8_FusionFailureDegrades ==
    /\ [](g_fusion.kind = "raise"
            => /\ ~g_raised
               /\ "error" \in DOMAIN g_comparator_result
               /\ Truthy(g_comparator_result["markdown"])
               /\ Returned
                    => /\ DOMAIN g_report = ReportKeys
                       /\ g_report["comparator"] = g_comparator_result
                       /\ g_report["yahoo"] = g_yahoo
                       /\ g_report["wikipedia"] = g_web
                       /\ g_report["metrics"] = g_metrics
                       /\ g_report["metrics_text"] = g_metrics_text
                       /\ g_report["social_analyses"] = List(<<g_yt_analysis>>)
                       /\ g_report["youtube_videos"] = List(g_yt_data["videos"])
                       /\ "title" \in DOMAIN g_report["header"])
    /\ [][g_pc = "compare"
            => UNCHANGED <<g_yahoo, g_web, g_metrics, g_metrics_text, g_yt_analysis,
                           g_yt_data, g_company_name, g_raised>>]_vars

C8_Witness ==
    /\ g_pc = "done"
    /\ g_key
    /\ g_fusion.kind = "raise"
    /\ g_status = 200
    /\ g_body["comparator"]["markdown"] = ErrorMarkdown
    /\ g_body["wikipedia"] # EmptyDict

\* the calls of generate_company_report in the stated order
StageOrder ==
    <<"validate_ticker", "fetch_yahoo_company", "fetch_wikipedia_summary",
      "fetch_youtube_comments_for_query", "analyze_comments_with_anthropic",
      "compute_company_metrics", "format_metrics_text", "compare_and_summarize">>

LastCall(calls) == IF calls = <<>> THEN "none" ELSE calls[Len(calls)]

Infos == { EmptyDict, [marketCap |-> Num(3000), sector |-> Str("Technology")] }

MetricsInit ==
    /\ m_pc = "call"
    /\ m_metrics = EmptyDict
    /\ \E h \in Histories \cup {None}, info \in Infos :
          m_yahoo = [info |-> info, summary |-> Str(""), history |-> h]
    /\ f_pc = "idle" /\ f_result = <<>> /\ f_comments = <<>>
    /\ a_pc = "idle" /\ a_comments = <<>> /\ a_key = FALSE /\ a_outcome = [kind |-> "raise"]
    /\ a_calls = 0 /\ a_prompt = <<>> /\ a_result = EmptyDict
    /\ g_pc = "off" /\ g_ticker = None /\ g_key = FALSE /\ g_ytkey = FALSE /\ g_valid = FALSE
    /\ g_meta = EmptyDict /\ g_company_name = None /\ g_yahoo = EmptyDict /\ g_web = EmptyDict
    /\ g_yt_data = EmptyDict /\ g_yt_analysis = EmptyDict /\ g_metrics = EmptyDict
    /\ g_metrics_text = None /\ g_comparator_result = EmptyDict /\ g_fusion = [kind |-> "none"]
    /\ g_report = EmptyDict /\ g_raised = FALSE /\ g_calls = <<>> /\ g_llm_calls = 0
    /\ g_status = 0 /\ g_body = EmptyDict
    /\ p_pc = "idle" /\ p_key = FALSE /\ p_thread = <<>> /\ p_max_comments = 0
    /\ p_page = 0 /\ p_comments = <<>> /\ p_requests = 0 /\ p_result = <<>>
    /\ y_pc = "idle" /\ y_key = FALSE /\ y_search = EmptyDict /\ y_max_videos = 0
    /\ y_result = EmptyDict

ComputeMetrics ==
    /\ m_pc = "call"
    /\ \E nanRaises \in BOOLEAN :
          LET r == compute_company_metrics(m_yahoo, nanRaises)
          IN  IF "raised" \in DOMAIN r
              THEN m_pc' = "raised" /\ m_metrics' = EmptyDict
              ELSE m_pc' = "returned" /\ m_metrics' = r
    /\ UNCHANGED <<m_yahoo, f_vars, a_vars, o_vars, p_vars, y_vars>>

MetricsNext == ComputeMetrics

SpecMetrics == MetricsInit /\ [][MetricsNext]_vars

\* the argument's history as the function reads it: `yahoo.get("history") or []`
m_history == Or(Get(m_yahoo, "history"), List(<<>>)).v

\* the close series the function extracts from the argument
m_closes == ClosesOf(m_history)

\* a metrics field is absent: the key is missing or its value is None
Absent(metrics, k) == k \notin DOMAIN metrics \/ metrics[k] = None

DerivedFields ==
    {"period_pct_change", "ma_50", "ma_200", "volatility_annual_approx", "avg_volume"}

\* C9: given an empty or missing price history, compute_company_metrics returns a
\* snapshot in which period_pct_change, ma_50, ma_200, volatility_annual_approx and
\* avg_volume are all absent (key missing or None), none of them a number.
C9_EmptyHistoryAllAbsent ==
    (m_pc = "returned" /\ m_history = <<>>)
        => \A k \in DerivedFields : Absent(m_metrics, k)

C9_Witness ==
    /\ m_pc = "returned"
    /\ m_yahoo["history"] = List(<<>>)
    /\ "market_cap" \in DOMAIN m_metrics

\* the moving average the claim states: the full window when the series has that
\* many closes, else the mean of the last min(fallback, N) closes
StatedAverage(closes, window, fallback) ==
    IF Len(closes) >= window
    THEN Mean(LastN(closes, window), window)
    ELSE Mean(LastN(closes, Min(fallback, Len(closes))), Min(fallback, Len(closes)))

\* C10: for every non-empty close series of length N, ma_50 is the mean of the last
\* 50 closes when N >= 50 and else the mean of the last min(10, N) closes, and ma_200
\* is the mean of the last 200 closes when N >= 200 and else the mean of the last
\* min(50, N) closes; the full-window value is used whatever it is, a mean of 0
\* included.
C10_MovingAverages ==
    (m_pc = "returned" /\ m_closes # <<>>)
        => /\ m_metrics["ma_50"] = StatedAverage(m_closes, ShortWindow, ShortFallback)
           /\ m_metrics["ma_200"] = StatedAverage(m_closes, LongWindow, LongFallback)

\* the close value a history row carries, under either spelling of the key
CloseOfRow(row) ==
    IF Get(row, "Close") # None THEN Get(row, "Close") ELSE Get(row, "close")

\* (last - first) / first * 100 of two numbers
StatedPctChange(first, last) ==
    Rat((last.n * first.d - first.n * last.d) * 100, first.n * last.d)

\* C11: period_pct_change is (lastClose - firstClose) / firstClose * 100 of the
\* closes of the first and the last row of the history; it is absent when no row
\* has a close or when the first row's close is zero, and a zero close never makes
\* it a number computed from another row.
C11_PctChangeFirstLast ==
    (m_pc = "returned" /\ m_history # <<>>)
        => LET first == CloseOfRow(m_history[1])
               last  == CloseOfRow(m_history[Len(m_history)])
           IN  IF (\A i \in 1..Len(m_history) : CloseOfRow(m_history[i]) = None)
                  \/ first = Num(0)
               THEN Absent(m_metrics, "period_pct_change")
               ELSE (IsNum(first) /\ IsNum(last))
                       => m_metrics["period_pct_change"] = StatedPctChange(first, last)

\* C12: every value of the snapshot returned by compute_company_metrics is a finite
\* number or absent; no field is NaN, whatever the rows' Close and Volume hold.
C12_NoNaNSurfaced ==
    m_pc = "returned" => \A k \in DOMAIN m_metrics : m_metrics[k] # NaN

\* every row of the history carries the same positive close
ConstantPositive(history) ==
    /\ Len(history) >= 2
    /\ \A i \in 1..Len(history) :
          /\ IsNum(CloseOfRow(history[i]))
          /\ CloseOfRow(history[i]).n > 0
          /\ CloseOfRow(history[i]) = CloseOfRow(history[1])

\* C18: volatility_annual_approx is absent when the history has fewer than 2
\* closes; a history of at least 2 rows with one constant positive close yields
\* period_pct_change = 0, volatility_annual_approx = 0 and ma_50 equal to that
\* constant, and the computation returns.
C18_VolatilityAndConstantSeries ==
    /\ (m_pc = "returned" /\ Len(m_closes) < 2)
          => Absent(m_metrics, "volatility_annual_approx")
    /\ (m_pc # "call" /\ ConstantPositive(m_history))
          => /\ m_pc = "returned"
             /\ m_metrics["period_pct_change"] = Num(0)
             /\ m_metrics["volatility_annual_approx"] = Num(0)
             /\ m_metrics["ma_50"] = CloseOfRow(m_history[1])

C18_Witness ==
    /\ m_pc = "returned"
    /\ Len(m_history) = 91
    /\ ConstantPositive(m_history)
    /\ CloseOfRow(m_history[1]) = Num(150)
    /\ m_metrics["volatility_annual_approx"] = Num(0)

\* the cut the claim states: the text itself up to 2000 characters, else its
\* first 2000 characters
StatedCut(text) ==
    IF Len(text.c) <= 2000 THEN text ELSE Text(SubSeq(text.c, 1, 2000))

\* C21: the comment-analysis prompt embeds at most the first 30 comments of the
\* input, in input order, each text cut to at most 2000 characters; a text of up
\* to 2000 characters is embedded unchanged.
C21_PromptSample ==
    (a_pc = "returned" /\ a_calls > 0) =>
        /\ Len(a_prompt) = Min(30, Len(a_comments))
        /\ \A i \in 1..Len(a_prompt) :
              /\ Len(a_prompt[i].c) <= 2000
              /\ a_prompt[i] = StatedCut(a_comments[i].text)

SpecFilter == FilterInit /\ [][FilterNext]_vars

SpecAnalyze == AnalyzeInit /\ [][AnalyzeNext]_vars

Spec == Init /\ [][Next]_vars

====
